---- MODULE Spec2Model ----
(***************************************************************************)
(* Mutator set of neptune-core: the sliding-window Bloom filter            *)
(* accumulator (AOCL MMR, SWBF-inactive MMR, active window), its           *)
(* membership proofs and their update protocol.                            *)
(*                                                                         *)
(* Two implementations live in the tree and are modelled side by side:     *)
(*   - set_commitment.rs      (get_swbf_indices, add_helper, remove_helper,*)
(*                             prove, verify, drop)  -> specification Spec *)
(*   - accumulation_scheme.rs (get_indices, add, remove, prove, verify,    *)
(*                             update_from_addition, update_from_remove)   *)
(*                                                   -> specification SpecAS*)
(* The membership-proof update protocol in the tree is the one of          *)
(* accumulation_scheme.rs; Spec drives it against the set_commitment.rs    *)
(* accumulator, as the tests of set_commitment.rs do.                      *)
(*                                                                         *)
(* Digests are modelled structurally (a hash is the prefix encoding of its *)
(* preimage), i.e. the hash is collision free.  The build-time parameters  *)
(* are scaled down; WINDOW_SIZE stays a multiple k >= 2 of CHUNK_SIZE.     *)
(***************************************************************************)
EXTENDS Integers, Sequences, FiniteSets, TLC

\* ---------------------------------------------------------------- parameters
WINDOW_SIZE == 6
CHUNK_SIZE == 3
BATCH_SIZE == 2
NUM_TRIALS == 2

\* ---------------------------------------------------------------- bounds
MaxLeaves == 5
MaxHeight == 3
MaxRecords == 2

\* ---------------------------------------------------------------- arithmetic
RECURSIVE Pow2(_)
Pow2(k) == IF k <= 0 THEN 1 ELSE 2 * Pow2(k - 1)

BitAt(n, k) == (n \div Pow2(k)) % 2

RECURSIVE TrailingOnes(_)
TrailingOnes(n) == IF n % 2 = 1 THEN 1 + TrailingOnes(n \div 2) ELSE 0

Range(s) == {s[i] : i \in 1..Len(s)}

RECURSIVE SortedSeq(_)
SortedSeq(S) ==
  IF S = {} THEN <<>>
  ELSE LET m == CHOOSE x \in S : \A y \in S : x <= y
       IN <<m>> \o SortedSeq(S \ {m})

\* ---------------------------------------------------------------- hasher
\* H::hash_pair: the digest is the prefix encoding of the pair.
hash_pair(a, b) == <<-1>> \o a \o b

\* ToDigest for u128 and for item / randomness preimages.
to_digest(n) == <<n>>

\* Chunk::hash: hashes the dense representation of the chunk's bits.
Chunk_hash(chunk) == <<-2>> \o chunk

\* Hasher::sample_index_not_power_of_two(digest, modulus): a value in
\* [0, modulus) determined by the digest.  The digest handed in by the index
\* derivation is hash_pair(counter, hash_pair(item, hash_pair(leaf, rand))),
\* i.e. <<-1, counter, -1, item, -1, leaf, rand>>.  The sampled positions are
\* those of an ideal Bloom filter: counter 0 hits a position no other
\* (item, leaf) hits, later counters hit shared positions or repeat.
sample_index_not_power_of_two(d, modulus) ==
  LET c == d[2]
      leaf == d[6]
      h == (d[4] + d[7] + leaf + c) % 3
  IN IF c = 0 \/ h = 0 THEN leaf % BATCH_SIZE
     ELSE IF h = 1 THEN CHUNK_SIZE - 1
     ELSE modulus - 1

\* ---------------------------------------------------------------- MMR
\* An MMR accumulator is [count, peaks]; an MMR membership proof is
\* [data_index, authentication_path].
EmptyMmr == [count |-> 0, peaks |-> <<>>]

\* heights of the peaks of an MMR with n leaves, left to right
PeakHeights(n) ==
  SelectSeq([i \in 1..(MaxHeight + 1) |-> MaxHeight + 1 - i],
            LAMBDA h : BitAt(n, h) = 1)

\* position (1-based) in the peak list of the mountain that holds leaf idx
PeakPos(n, idx) ==
  LET hs == PeakHeights(n)
  IN CHOOSE p \in 1..Len(hs) :
       LET top == (n \div Pow2(hs[p])) * Pow2(hs[p])
       IN top - Pow2(hs[p]) <= idx /\ idx < top

\* fold of an authentication path over a leaf digest
RECURSIVE CalcRoot(_, _, _, _)
CalcRoot(acc, idx, path, k) ==
  IF k > Len(path) THEN acc
  ELSE CalcRoot(IF BitAt(idx, k - 1) = 1 THEN hash_pair(path[k], acc)
                                         ELSE hash_pair(acc, path[k]),
                idx, path, k + 1)

\* MmrMembershipProof::verify(peaks, leaf, leaf_count)
Mmr_verify(mp, peaks, leaf, count) ==
  /\ mp.data_index < count
  /\ Len(PeakHeights(count)) = Len(peaks)
  /\ peaks[PeakPos(count, mp.data_index)]
       = CalcRoot(leaf, mp.data_index, mp.authentication_path, 1)

\* merge of the j rightmost peaks into acc, right to left
RECURSIVE MergeRight(_, _, _)
MergeRight(peaks, acc, j) ==
  IF j = 0 THEN acc
  ELSE MergeRight(SubSeq(peaks, 1, Len(peaks) - 1),
                  hash_pair(peaks[Len(peaks)], acc), j - 1)

\* Mmr::append(leaf): the new accumulator and the membership proof of the leaf
Mmr_append(mmr, leaf) ==
  LET t == TrailingOnes(mmr.count)
      L == Len(mmr.peaks)
  IN [mmr |-> [count |-> mmr.count + 1,
               peaks |-> SubSeq(mmr.peaks, 1, L - t)
                           \o <<MergeRight(mmr.peaks, leaf, t)>>],
      mp |-> [data_index |-> mmr.count,
              authentication_path |-> [j \in 1..t |-> mmr.peaks[L + 1 - j]]]]

\* a path update that also extends the proof of the leaf being appended
Mmr_update_from_append_new_leaf_too(mp, old_count, new_leaf, old_peaks) ==
  LET h == Len(mp.authentication_path)
      t == TrailingOnes(old_count)
      L == Len(old_peaks)
      ownIsPeak == /\ mp.data_index < old_count
                   /\ L = Len(PeakHeights(old_count))
                   /\ PeakHeights(old_count)[PeakPos(old_count, mp.data_index)] = h
  IN IF mp.data_index >= old_count
     THEN [mp EXCEPT !.authentication_path = @ \o <<new_leaf>>]
     ELSE IF ownIsPeak /\ h < t
          THEN [mp EXCEPT !.authentication_path =
                  @ \o <<MergeRight(old_peaks, new_leaf, h)>>
                    \o [j \in 1..(t - h - 1) |-> old_peaks[L - h - j]]]
          ELSE mp

\* MmrMembershipProof::update_from_append(old_leaf_count, new_leaf, old_peaks):
\* the path grows iff the proof's own peak gets a parent through the append.
Mmr_update_from_append(mp, old_count, new_leaf, old_peaks) ==
  LET h == Len(mp.authentication_path)
      t == TrailingOnes(old_count)
      L == Len(old_peaks)
      ownIsPeak == /\ mp.data_index < old_count
                   /\ L = Len(PeakHeights(old_count))
                   /\ PeakHeights(old_count)[PeakPos(old_count, mp.data_index)] = h
  IN IF ownIsPeak /\ h < t
     THEN [mp EXCEPT !.authentication_path =
             @ \o <<MergeRight(old_peaks, new_leaf, h)>>
               \o [j \in 1..(t - h - 1) |-> old_peaks[L - h - j]]]
     ELSE mp

\* node digests derived from leaf mutations: a map from <<height, position>>
\* to the new digest of that node
MapPut(map, key, val) ==
  [x \in (DOMAIN map) \cup {key} |-> IF x = key THEN val ELSE map[x]]

NodeKey(idx, k) == <<k, idx \div Pow2(k)>>

SiblingKey(idx, k) ==
  <<k, IF BitAt(idx, k) = 1 THEN (idx \div Pow2(k)) - 1
                             ELSE (idx \div Pow2(k)) + 1>>

\* walk one mutated leaf up its authentication path; a sibling that has been
\* derived already replaces the one of the path
RECURSIVE WalkMutation(_, _, _, _, _)
WalkMutation(map, acc, idx, path, k) ==
  LET map1 == MapPut(map, NodeKey(idx, k - 1), acc)
  IN IF k > Len(path) THEN [map |-> map1, root |-> acc]
     ELSE LET sk == SiblingKey(idx, k - 1)
              sib == IF sk \in DOMAIN map1 THEN map1[sk] ELSE path[k]
          IN WalkMutation(map1,
                          IF BitAt(idx, k - 1) = 1 THEN hash_pair(sib, acc)
                                                   ELSE hash_pair(acc, sib),
                          idx, path, k + 1)

\* replace the path elements of mp that the map has a new digest for
ApplyNodeMap(mp, map) ==
  [mp EXCEPT !.authentication_path =
     [k \in 1..Len(@) |->
        IF SiblingKey(mp.data_index, k - 1) \in DOMAIN map
        THEN map[SiblingKey(mp.data_index, k - 1)] ELSE @[k]]]

EmptyMap == [x \in {} |-> <<>>]

\* MmrAccumulator::mutate_leaf(old_membership_proof, new_leaf)
Mmr_mutate_leaf(mmr, mp, new_leaf) ==
  [mmr EXCEPT !.peaks[PeakPos(mmr.count, mp.data_index)] =
     CalcRoot(new_leaf, mp.data_index, mp.authentication_path, 1)]

\* MmrMembershipProof::batch_update_from_leaf_mutation(proofs, mp, new_leaf)
Mmr_batch_update_from_leaf_mutation(proofs, mp, new_leaf) ==
  LET map == WalkMutation(EmptyMap, new_leaf, mp.data_index,
                          mp.authentication_path, 1).map
  IN [i \in 1..Len(proofs) |-> ApplyNodeMap(proofs[i], map)]

\* the node map of a whole batch of (proof, new leaf) pairs, taken last first
RECURSIVE BatchNodeMap(_, _)
BatchNodeMap(mutations, map) ==
  IF mutations = <<>> THEN map
  ELSE LET m == mutations[Len(mutations)]
       IN BatchNodeMap(SubSeq(mutations, 1, Len(mutations) - 1),
                       WalkMutation(map, m.leaf, m.mp.data_index,
                                    m.mp.authentication_path, 1).map)

\* MmrMembershipProof::batch_update_from_batch_leaf_mutation(proofs, mutations)
Mmr_batch_update_from_batch_leaf_mutation(proofs, mutations) ==
  LET map == BatchNodeMap(mutations, EmptyMap)
  IN [i \in 1..Len(proofs) |-> ApplyNodeMap(proofs[i], map)]

\* Mmr::batch_mutate_leaf_and_update_mps(proofs, mutation_data): every
\* mutated leaf's peak is recomputed from the derived node digests
RECURSIVE BatchMutatePeaks(_, _, _)
BatchMutatePeaks(mmr, mutations, map) ==
  IF mutations = <<>> THEN mmr
  ELSE LET m == mutations[Len(mutations)]
           w == WalkMutation(map, m.leaf, m.mp.data_index,
                             m.mp.authentication_path, 1)
       IN BatchMutatePeaks(
            [mmr EXCEPT !.peaks[PeakPos(mmr.count, m.mp.data_index)] = w.root],
            SubSeq(mutations, 1, Len(mutations) - 1), w.map)

\* the leaves mutated one after the other, each with the proof as it was
\* supplied
RECURSIVE Mmr_mutate_each(_, _)
Mmr_mutate_each(mmr, mutations) ==
  IF mutations = <<>> THEN mmr
  ELSE Mmr_mutate_each(Mmr_mutate_leaf(mmr, mutations[1].mp, mutations[1].leaf),
                       Tail(mutations))

Mmr_batch_mutate_leaf_and_update_mps(mmr, mutations) ==
  BatchMutatePeaks(mmr, mutations, EmptyMap)

\* ---------------------------------------------------------------- shared
ZeroBits(n) == [i \in 1..n |-> 0]

\* set the (0-based) position pos of a bit array
SetBit(bits, pos) == [bits EXCEPT ![pos + 1] = 1]

RECURSIVE SetBits(_, _)
SetBits(bits, positions) ==
  IF positions = {} THEN bits
  ELSE LET p == CHOOSE x \in positions : TRUE
       IN SetBits(SetBit(bits, p), positions \ {p})

\* shared::bit_indices_to_hash_map: the chunk indices of a list of bit indices
ChunkIndices(bit_indices) == {b \div CHUNK_SIZE : b \in Range(bit_indices)}

BitsOfChunk(bit_indices, ci) == {b \in Range(bit_indices) : b \div CHUNK_SIZE = ci}

\* chunk dictionary: a list of [idx, mp, chunk]
DictKeys(dict) == {dict[i].idx : i \in 1..Len(dict)}

DictPos(dict, ci) ==
  CHOOSE i \in 1..Len(dict) :
    dict[i].idx = ci /\ \A j \in 1..(i - 1) : dict[j].idx # ci

DictGet(dict, ci) == dict[DictPos(dict, ci)]

\* ---------------------------------------------------------------- set_commitment.rs
\* SetCommitment::default
SetCommitment_default ==
  [aocl |-> EmptyMmr, swbf_inactive |-> EmptyMmr,
   swbf_active |-> ZeroBits(WINDOW_SIZE)]

\* a sampler that ignores the counter: every trial yields the first sample
SampleIndex_ignoring_counter(item, randomness, aocl_leaf_index, counter) ==
  LET rhs == hash_pair(item, hash_pair(to_digest(aocl_leaf_index), randomness))
  IN sample_index_not_power_of_two(hash_pair(to_digest(0), rhs), WINDOW_SIZE)
       + (aocl_leaf_index \div BATCH_SIZE) * CHUNK_SIZE

\* one counter-mode sample of the index derivation
SampleIndex(item, randomness, aocl_leaf_index, counter) ==
  LET rhs == hash_pair(item, hash_pair(to_digest(aocl_leaf_index), randomness))
  IN sample_index_not_power_of_two(hash_pair(to_digest(counter), rhs), WINDOW_SIZE)
       + (aocl_leaf_index \div BATCH_SIZE) * CHUNK_SIZE

\* the duplicate-replacement loop of get_swbf_indices
RECURSIVE FillIndices(_, _, _, _, _)
FillIndices(indices, item, randomness, aocl_leaf_index, j) ==
  IF Cardinality(indices) >= NUM_TRIALS THEN SortedSeq(indices)
  ELSE FillIndices(indices \cup {SampleIndex(item, randomness, aocl_leaf_index, j)},
                   item, randomness, aocl_leaf_index, j + 1)

\* the first NUM_TRIALS samples as they come: no replacement of duplicates, no
\* sort
get_swbf_indices_first_samples(item, randomness, aocl_leaf_index) ==
  [i \in 1..NUM_TRIALS |-> SampleIndex(item, randomness, aocl_leaf_index, i - 1)]

\* get_swbf_indices: NUM_TRIALS distinct samples, sorted
get_swbf_indices(item, randomness, aocl_leaf_index) ==
  FillIndices({SampleIndex(item, randomness, aocl_leaf_index, i) :
                 i \in 0..(NUM_TRIALS - 1)},
              item, randomness, aocl_leaf_index, NUM_TRIALS)

\* a sort that leaves the vector as it is
sort_unstable_skipped(seq) == seq

\* sort_unstable: the same elements in ascending order
sort_unstable(seq) ==
  CHOOSE s \in [1..Len(seq) -> Range(seq)] :
    /\ \A i \in 1..(Len(seq) - 1) : s[i] <= s[i + 1]
    /\ \A x \in Range(seq) :
         Cardinality({i \in 1..Len(seq) : s[i] = x})
           = Cardinality({i \in 1..Len(seq) : seq[i] = x})

\* Vec::dedup: of consecutive equal elements the first is kept
RECURSIVE dedup(_)
dedup(seq) ==
  IF Len(seq) <= 1 THEN seq
  ELSE IF seq[1] = seq[2] THEN dedup(Tail(seq))
       ELSE <<seq[1]>> \o dedup(Tail(seq))

\* the while loop of get_swbf_indices on the vector: push, sort, dedup
RECURSIVE fill_loop(_, _, _, _, _)
fill_loop(indices, item, randomness, aocl_leaf_index, j) ==
  IF Len(indices) >= NUM_TRIALS THEN indices
  ELSE fill_loop(
         dedup(sort_unstable(
           Append(indices, SampleIndex(item, randomness, aocl_leaf_index, j)))),
         item, randomness, aocl_leaf_index, j + 1)

\* get_swbf_indices statement by statement, the results of the parallel map
\* placed in the vector in the order in which the counters complete
get_swbf_indices_par(item, randomness, aocl_leaf_index, order) ==
  fill_loop(
    dedup(sort_unstable(
      [i \in 1..NUM_TRIALS |->
         SampleIndex(item, randomness, aocl_leaf_index, order[i] - 1)])),
    item, randomness, aocl_leaf_index, NUM_TRIALS)

\* SetCommitment::commit
commit(ms, item, randomness) ==
  [commitment |-> hash_pair(item, randomness), aocl_snapshot |-> ms.aocl]

\* a snapshot test that accepts every record
has_matching_aocl_unchecked(ar, aocl) == TRUE

\* AdditionRecord::has_matching_aocl
has_matching_aocl(ar, aocl) ==
  ar.aocl_snapshot.count = aocl.count /\ ar.aocl_snapshot.peaks = aocl.peaks

\* a slide test that forgets the index != 0 exception
window_slides_at_zero(index) == index % BATCH_SIZE = 0

\* SetCommitment::window_slides (set_commitment.rs)
window_slides(index) == index # 0 /\ index % BATCH_SIZE = 0

\* a slide that clears the window instead of moving its values
SlideWindow_clear(active) == [i \in 1..WINDOW_SIZE |-> 0]

\* the window after a slide: values move left by one chunk, the tail is zeroed
SlideWindow(active) ==
  [i \in 1..WINDOW_SIZE |->
     IF i <= WINDOW_SIZE - CHUNK_SIZE THEN active[i + CHUNK_SIZE] ELSE 0]

\* SetCommitment::add_helper (the caller has checked has_matching_aocl)
add_helper(ms, ar) ==
  LET item_index == ms.aocl.count
      aocl1 == Mmr_append(ms.aocl, ar.commitment).mmr
      chunk == SubSeq(ms.swbf_active, 1, CHUNK_SIZE)
  IN IF ~window_slides(item_index)
     THEN [ms EXCEPT !.aocl = aocl1]
     ELSE [aocl |-> aocl1,
           swbf_inactive |-> Mmr_append(ms.swbf_inactive, Chunk_hash(chunk)).mmr,
           swbf_active |-> SlideWindow(ms.swbf_active)]

\* prove caching the indices of the leaf after the one it proves
prove_caching_next_index(ms, item, randomness, store_bits) ==
  [randomness |-> randomness,
   auth_path_aocl |-> Mmr_append(ms.aocl, hash_pair(item, randomness)).mp,
   target_chunks |-> <<>>,
   cached_bits |-> IF store_bits
                   THEN get_swbf_indices(item, randomness, ms.aocl.count + 1)
                   ELSE <<>>]

\* SetCommitment::prove
prove(ms, item, randomness, store_bits) ==
  [randomness |-> randomness,
   auth_path_aocl |-> Mmr_append(ms.aocl, hash_pair(item, randomness)).mp,
   target_chunks |-> <<>>,
   cached_bits |-> IF store_bits
                   THEN get_swbf_indices(item, randomness, ms.aocl.count)
                   ELSE <<>>]

\* the bit indices a proof stands for: the cached ones if present
ProofIndices(item, mp) ==
  IF mp.cached_bits # <<>> THEN mp.cached_bits
  ELSE get_swbf_indices(item, mp.randomness, mp.auth_path_aocl.data_index)

\* the otherwise identical proof without cached indices
Uncached(mp) == [mp EXCEPT !.cached_bits = <<>>]

\* SetCommitment::drop
drop(ms, item, mp) ==
  [bit_indices |-> ProofIndices(item, mp), target_chunks |-> mp.target_chunks]

\* the Bloom filter part of verify, for a given current batch index: every
\* archived chunk of the item is in the dictionary with a valid authentication
\* path, and some bit of the item is unset
VerifySwbf(ms, item, mp, current_batch_index) ==
  LET window_start == current_batch_index * CHUNK_SIZE
      all_bit_indices == ProofIndices(item, mp)
      inactive == {ci \in ChunkIndices(all_bit_indices) : ci < current_batch_index}
      active == ChunkIndices(all_bit_indices) \ inactive
      entries_in_dictionary == inactive \subseteq DictKeys(mp.target_chunks)
      all_auth_paths_are_valid ==
        \A ci \in inactive :
          LET e == DictGet(mp.target_chunks, ci)
          IN Mmr_verify(e.mp, ms.swbf_inactive.peaks, Chunk_hash(e.chunk),
                        ms.swbf_inactive.count)
      has_unset_bits ==
        \/ \E ci \in inactive : \E b \in BitsOfChunk(all_bit_indices, ci) :
             DictGet(mp.target_chunks, ci).chunk[(b % CHUNK_SIZE) + 1] = 0
        \/ \E ci \in active : \E b \in BitsOfChunk(all_bit_indices, ci) :
             ms.swbf_active[(b - window_start) + 1] = 0
  IN entries_in_dictionary /\ all_auth_paths_are_valid /\ has_unset_bits

\* a current batch index taken from the leaf count instead of the index of
\* the last leaf
verify_current_batch_index_of_count(ms) == ms.aocl.count \div BATCH_SIZE

\* the batch index of the last AOCL leaf, as verify computes it
verify_current_batch_index(ms) == (ms.aocl.count - 1) \div BATCH_SIZE

\* verify with the leaf-index guard off by one and the result of the AOCL
\* membership check dropped
verify_without_aocl(ms, item, mp) ==
  IF ms.aocl.count = 0 \/ ms.aocl.count < mp.auth_path_aocl.data_index THEN FALSE
  ELSE IF mp.auth_path_aocl.data_index \div BATCH_SIZE > verify_current_batch_index(ms)
  THEN FALSE
  ELSE VerifySwbf(ms, item, mp, verify_current_batch_index(ms))

\* SetCommitment::verify (set_commitment.rs)
verify(ms, item, mp) ==
  IF ms.aocl.count <= mp.auth_path_aocl.data_index THEN FALSE
  ELSE IF ~Mmr_verify(mp.auth_path_aocl, ms.aocl.peaks,
                      hash_pair(item, mp.randomness), ms.aocl.count) THEN FALSE
  ELSE VerifySwbf(ms, item, mp, verify_current_batch_index(ms))

\* verify reads self.swbf_active[relative_index] for the indices of a chunk
\* in the active window, in the order of the index list, until it meets an
\* unset bit: the read is out of bounds for an index at or beyond
\* window_start + WINDOW_SIZE that is preceded, within its chunk, only by
\* indices whose bits are set
verify_reads_beyond_window(ms, item, mp) ==
  /\ ms.aocl.count > mp.auth_path_aocl.data_index
  /\ Mmr_verify(mp.auth_path_aocl, ms.aocl.peaks,
                hash_pair(item, mp.randomness), ms.aocl.count)
  /\ LET current_batch_index == verify_current_batch_index(ms)
         window_start == current_batch_index * CHUNK_SIZE
         all_bit_indices == ProofIndices(item, mp)
     IN \E k \in 1..Len(all_bit_indices) :
          LET bit_index == all_bit_indices[k]
          IN /\ bit_index \div CHUNK_SIZE >= current_batch_index
             /\ bit_index - window_start >= WINDOW_SIZE
             /\ \A j \in 1..(k - 1) :
                  LET b == all_bit_indices[j]
                  IN b \div CHUNK_SIZE = bit_index \div CHUNK_SIZE
                       => /\ b - window_start < WINDOW_SIZE
                          /\ ms.swbf_active[(b - window_start) + 1] = 1

\* verify leaves its loop early (break 'outer) at an archived chunk that has
\* no entry in the proof's dictionary; the chunks are visited in the order
\* of a HashMap
verify_may_break_outer(ms, item, mp) ==
  \E ci \in ChunkIndices(ProofIndices(item, mp)) :
    /\ ci < verify_current_batch_index(ms)
    /\ ci \notin DictKeys(mp.target_chunks)

\* the ways a call of verify can end: "none" for a returned verdict,
\* "verify" for the index-out-of-bounds panic
verify_outcomes(ms, item, mp) ==
  IF ~verify_reads_beyond_window(ms, item, mp) THEN {"none"}
  ELSE IF verify_may_break_outer(ms, item, mp) THEN {"none", "verify"}
  ELSE {"verify"}

\* the conditions under which remove_helper panics: empty AOCL (underflow),
\* an archived chunk missing from the record, a bit beyond the window
remove_helper_panics(ms, rr) ==
  \/ ms.aocl.count = 0
  \/ LET batch_index == (ms.aocl.count - 1) \div BATCH_SIZE
     IN \/ \E ci \in ChunkIndices(rr.bit_indices) :
             ci < batch_index /\ ci \notin DictKeys(rr.target_chunks)
        \/ \E b \in Range(rr.bit_indices) :
             b \div CHUNK_SIZE >= batch_index
               /\ b - batch_index * CHUNK_SIZE >= WINDOW_SIZE

\* the record's dictionary with the record's bits set in its chunks
\* (new_target_chunks of remove_helper)
NewTargetChunks(rr, batch_index) ==
  [i \in 1..Len(rr.target_chunks) |->
     LET e == rr.target_chunks[i]
     IN IF e.idx < batch_index /\ i = DictPos(rr.target_chunks, e.idx)
        THEN [e EXCEPT !.chunk =
                SetBits(@, {b % CHUNK_SIZE : b \in BitsOfChunk(rr.bit_indices, e.idx)})]
        ELSE e]

\* a removal that appends the digests of the changed chunks as new leaves
\* instead of replacing the old ones
RemoveInOrder_appending(ms, rr, batch_index, order) ==
  LET window_start == batch_index * CHUNK_SIZE
      new_target_chunks == NewTargetChunks(rr, batch_index)
      RECURSIVE appended(_, _)
      appended(mmr, i) ==
        IF i > Len(new_target_chunks) THEN mmr
        ELSE appended(Mmr_append(mmr, Chunk_hash(new_target_chunks[order[i]].chunk)).mmr,
                      i + 1)
  IN [aocl |-> ms.aocl,
      swbf_inactive |-> appended(ms.swbf_inactive, 1),
      swbf_active |->
        SetBits(ms.swbf_active,
                {b - window_start : b \in {x \in Range(rr.bit_indices) :
                                             x \div CHUNK_SIZE >= batch_index}})]

\* remove_helper for a given current batch index: active bits are set in the
\* window, archived bits in the record's chunks, whose digests replace the
\* SWBF-inactive leaves in one batch
RemoveInOrder(ms, rr, batch_index, order) ==
  LET window_start == batch_index * CHUNK_SIZE
      new_target_chunks == NewTargetChunks(rr, batch_index)
      mutation_data ==
        [i \in 1..Len(new_target_chunks) |->
           [mp |-> new_target_chunks[order[i]].mp,
            leaf |-> Chunk_hash(new_target_chunks[order[i]].chunk)]]
  IN [aocl |-> ms.aocl,
      swbf_inactive |->
        Mmr_batch_mutate_leaf_and_update_mps(ms.swbf_inactive, mutation_data),
      swbf_active |->
        SetBits(ms.swbf_active,
                {b - window_start : b \in {x \in Range(rr.bit_indices) :
                                             x \div CHUNK_SIZE >= batch_index}})]

\* the same with the dictionary taken in the order it is stored
RemoveWith(ms, rr, batch_index) ==
  RemoveInOrder(ms, rr, batch_index, [i \in 1..Len(rr.target_chunks) |-> i])

\* the orders in which a hash map of n entries may be iterated
Orders(n) ==
  {f \in [1..n -> 1..n] : \A i, j \in 1..n : f[i] = f[j] => i = j}

\* a removal record with its dictionary entries stored in another order
PermuteChunks(rr, order) ==
  [rr EXCEPT !.target_chunks = [i \in 1..Len(rr.target_chunks) |-> @[order[i]]]]

\* the chunk indices of the record that lie in the active window
ActiveChunks(ms, rr) ==
  {ci \in ChunkIndices(rr.bit_indices) : ci >= (ms.aocl.count - 1) \div BATCH_SIZE}

\* the state a panicking remove_helper leaves behind: the loop had set the
\* bits of the active chunks in S before it reached the failing chunk
remove_helper_aborted(ms, rr, S) ==
  LET window_start == ((ms.aocl.count - 1) \div BATCH_SIZE) * CHUNK_SIZE
  IN [ms EXCEPT !.swbf_active =
        SetBits(@, {b - window_start :
                      b \in {x \in Range(rr.bit_indices) :
                               /\ x \div CHUNK_SIZE \in S
                               /\ x - window_start < WINDOW_SIZE}})]

\* remove_helper with the batch index taken from the leaf count
remove_helper_batch_of_count(ms, rr) ==
  RemoveWith(ms, rr, ms.aocl.count \div BATCH_SIZE)

\* SetCommitment::remove_helper
remove_helper(ms, rr) ==
  RemoveWith(ms, rr, (ms.aocl.count - 1) \div BATCH_SIZE)

\* ---------------------------------------------------------------- accumulation_scheme.rs
\* ChunkDictionary::has_duplicates
has_duplicates(dict) == Cardinality(DictKeys(dict)) # Len(dict)

\* RemovalRecord::validate
validate(rr, ms) ==
  \A i \in 1..Len(rr.target_chunks) :
    Mmr_verify(rr.target_chunks[i].mp, ms.swbf_inactive.peaks,
               Chunk_hash(rr.target_chunks[i].chunk), ms.swbf_inactive.count)

\* SetCommitment::get_indices (accumulation_scheme.rs): NUM_TRIALS samples in
\* counter order
get_indices(item, randomness, index) ==
  [i \in 1..NUM_TRIALS |-> SampleIndex(item, randomness, index, i - 1)]

\* SetCommitment::window_slides (accumulation_scheme.rs)
AS_window_slides(index) == index % BATCH_SIZE = 0

\* SetCommitment::add (accumulation_scheme.rs; the caller has checked
\* has_matching_aocl)
AS_add(ms, ar) ==
  LET item_index == ms.aocl.count
      aocl1 == Mmr_append(ms.aocl, ar.commitment).mmr
      chunk == SubSeq(ms.swbf_active, 1, CHUNK_SIZE)
  IN IF AS_window_slides(item_index)
     THEN [aocl |-> aocl1,
           swbf_inactive |-> Mmr_append(ms.swbf_inactive, Chunk_hash(chunk)).mmr,
           swbf_active |-> SlideWindow(ms.swbf_active)]
     ELSE [ms EXCEPT !.aocl = aocl1]

\* prove with the boundary of its slide branch taken after the slide: the
\* indices of the chunk being archived get an entry
AS_prove_after_slide(ms, item, randomness) ==
  LET new_item_index == ms.aocl.count
      bit_indices == get_indices(item, randomness, new_item_index)
      chunk == SubSeq(ms.swbf_active, 1, CHUNK_SIZE)
      new_chunk_path == Mmr_append(ms.swbf_inactive, Chunk_hash(chunk)).mp
      window_start == (new_item_index \div BATCH_SIZE) * CHUNK_SIZE + CHUNK_SIZE
      inactive == SelectSeq(bit_indices, LAMBDA b : b < window_start)
  IN [randomness |-> randomness,
      auth_path_aocl |-> Mmr_append(ms.aocl, hash_pair(item, randomness)).mp,
      target_chunks |->
        IF AS_window_slides(new_item_index) /\ new_item_index > 0
        THEN [i \in 1..Len(inactive) |->
                [idx |-> inactive[i] \div CHUNK_SIZE, mp |-> new_chunk_path,
                 chunk |-> chunk]]
        ELSE <<>>,
      cached_bits |-> <<>>]

\* SetCommitment::prove (accumulation_scheme.rs)
AS_prove(ms, item, randomness) ==
  LET new_item_index == ms.aocl.count
      bit_indices == get_indices(item, randomness, new_item_index)
      chunk == SubSeq(ms.swbf_active, 1, CHUNK_SIZE)
      new_chunk_path == Mmr_append(ms.swbf_inactive, Chunk_hash(chunk)).mp
      window_start == (new_item_index \div BATCH_SIZE) * CHUNK_SIZE
      inactive == SelectSeq(bit_indices, LAMBDA b : b < window_start)
  IN [randomness |-> randomness,
      auth_path_aocl |-> Mmr_append(ms.aocl, hash_pair(item, randomness)).mp,
      target_chunks |->
        IF AS_window_slides(new_item_index) /\ new_item_index > 0
        THEN [i \in 1..Len(inactive) |->
                [idx |-> inactive[i] \div CHUNK_SIZE, mp |-> new_chunk_path,
                 chunk |-> chunk]]
        ELSE <<>>,
      cached_bits |-> <<>>]

\* SetCommitment::drop (accumulation_scheme.rs)
AS_drop(ms, item, mp) ==
  [bit_indices |-> get_indices(item, mp.randomness, mp.auth_path_aocl.data_index),
   target_chunks |-> mp.target_chunks]

MatchingEntries(dict, ci) == SelectSeq(dict, LAMBDA e : e.idx = ci)

\* the window start of remove (accumulation_scheme.rs)
AS_remove_window_start(ms) == (ms.aocl.count \div BATCH_SIZE) * CHUNK_SIZE

\* the window start of verify (accumulation_scheme.rs)
AS_verify_window_start(ms) == ((ms.aocl.count - 1) \div BATCH_SIZE) * CHUNK_SIZE

\* SetCommitment::verify (accumulation_scheme.rs)
AS_verify(ms, item, mp) ==
  IF ms.aocl.count <= mp.auth_path_aocl.data_index THEN FALSE
  ELSE
    LET is_aocl_member ==
          Mmr_verify(mp.auth_path_aocl, ms.aocl.peaks,
                     hash_pair(item, mp.randomness), ms.aocl.count)
        current_batch_index == (ms.aocl.count - 1) \div BATCH_SIZE
        window_start == current_batch_index * CHUNK_SIZE
        window_stop == window_start + WINDOW_SIZE
        bits == Range(get_indices(item, mp.randomness, mp.auth_path_aocl.data_index))
        left == {b \in bits : b < window_start}
        found == {b \in left :
                    Len(MatchingEntries(mp.target_chunks, b \div CHUNK_SIZE)) = 1}
        entries_in_dictionary == found = left
        all_auth_paths_are_valid ==
          \A b \in found :
            LET e == MatchingEntries(mp.target_chunks, b \div CHUNK_SIZE)[1]
            IN Mmr_verify(e.mp, ms.swbf_inactive.peaks, Chunk_hash(e.chunk),
                          ms.swbf_inactive.count)
        no_future_bits == \A b \in bits : b < window_stop
        has_unset_bits ==
          \/ \E b \in found :
               MatchingEntries(mp.target_chunks, b \div CHUNK_SIZE)[1]
                 .chunk[(b % CHUNK_SIZE) + 1] = 0
          \/ \E b \in bits :
               /\ b >= window_start
               /\ b < window_stop
               /\ ms.swbf_active[(b - window_start) + 1] = 0
    IN is_aocl_member /\ entries_in_dictionary /\ all_auth_paths_are_valid
         /\ no_future_bits /\ has_unset_bits

\* the dictionary of remove with the record's archived bits set, each in the
\* first entry found for its chunk
RECURSIVE AS_SetChunkBits(_, _, _, _)
AS_SetChunkBits(dict, bit_indices, window_start, k) ==
  IF k > Len(bit_indices) THEN dict
  ELSE LET b == bit_indices[k]
       IN IF b >= window_start \/ (b \div CHUNK_SIZE) \notin DictKeys(dict)
          THEN AS_SetChunkBits(dict, bit_indices, window_start, k + 1)
          ELSE AS_SetChunkBits(
                 [dict EXCEPT ![DictPos(dict, b \div CHUNK_SIZE)].chunk =
                    SetBit(@, b % CHUNK_SIZE)],
                 bit_indices, window_start, k + 1)

\* the leaf-by-leaf mutation loop of remove: [mmr, ok], ok false when the
\* assertion on the old leaf fails
RECURSIVE AS_MutateLoop(_, _, _, _, _)
AS_MutateLoop(mmr, proofs, leafs, old_leafs, i) ==
  IF i > Len(proofs) THEN [mmr |-> mmr, ok |-> TRUE]
  ELSE IF ~Mmr_verify(proofs[i], mmr.peaks, old_leafs[i], mmr.count)
       THEN [mmr |-> mmr, ok |-> FALSE]
       ELSE AS_MutateLoop(Mmr_mutate_leaf(mmr, proofs[i], leafs[i]),
                          Mmr_batch_update_from_leaf_mutation(proofs, proofs[i], leafs[i]),
                          leafs, old_leafs, i + 1)

AS_RemoveLoop(ms, rr) ==
  LET window_start == (ms.aocl.count \div BATCH_SIZE) * CHUNK_SIZE
      new_target_chunks == AS_SetChunkBits(rr.target_chunks, rr.bit_indices,
                                           window_start, 1)
  IN AS_MutateLoop(ms.swbf_inactive,
                   [i \in 1..Len(new_target_chunks) |-> new_target_chunks[i].mp],
                   [i \in 1..Len(new_target_chunks) |->
                      Chunk_hash(new_target_chunks[i].chunk)],
                   [i \in 1..Len(rr.target_chunks) |->
                      Chunk_hash(rr.target_chunks[i].chunk)],
                   1)

\* remove (accumulation_scheme.rs) panics on an archived bit without a
\* dictionary entry (unwrap) and on a dictionary entry that does not verify
AS_remove_panics(ms, rr) ==
  LET window_start == (ms.aocl.count \div BATCH_SIZE) * CHUNK_SIZE
  IN \/ \E b \in Range(rr.bit_indices) :
          b < window_start /\ (b \div CHUNK_SIZE) \notin DictKeys(rr.target_chunks)
     \/ ~AS_RemoveLoop(ms, rr).ok

\* SetCommitment::remove (accumulation_scheme.rs)
AS_remove(ms, rr) ==
  LET window_start == (ms.aocl.count \div BATCH_SIZE) * CHUNK_SIZE
  IN [aocl |-> ms.aocl,
      swbf_inactive |-> AS_RemoveLoop(ms, rr).mmr,
      swbf_active |->
        SetBits(ms.swbf_active,
                {b - window_start : b \in {x \in Range(rr.bit_indices) :
                                             x >= window_start}})]

\* ---------------------------------------------------------------- MembershipProof
\* an insert test without the dictionary.contains(entry) check
InsertsEntry_unchecked(dict, entry, b, batch_index) ==
  /\ (batch_index - 1) * CHUNK_SIZE <= b
  /\ b < batch_index * CHUNK_SIZE

\* whether the slide branch inserts the entry for bit index b: b lies in the
\* chunk that is being archived and the dictionary does not hold the entry yet
InsertsEntry(dict, entry, b, batch_index) ==
  /\ (batch_index - 1) * CHUNK_SIZE <= b
  /\ b < batch_index * CHUNK_SIZE
  /\ entry \notin Range(dict)

\* the slide branch of update_from_addition, one bit index after the other:
\* [dict, dup], dup set when the assertion !has_duplicates() fails
RECURSIVE UpdateFromAdditionLoop(_, _, _, _, _, _)
UpdateFromAdditionLoop(dict, dup, bit_indices, k, ms, batch_index) ==
  IF k > Len(bit_indices) THEN [dict |-> dict, dup |-> dup]
  ELSE
    LET b == bit_indices[k]
        old_window_start == (batch_index - 1) * CHUNK_SIZE
        new_chunk == SubSeq(ms.swbf_active, 1, CHUNK_SIZE)
        new_auth_path == Mmr_append(ms.swbf_inactive, Chunk_hash(new_chunk)).mp
        entry == [idx |-> b \div CHUNK_SIZE, mp |-> new_auth_path, chunk |-> new_chunk]
        dict1 == IF b < old_window_start
                 THEN [i \in 1..Len(dict) |->
                         IF dict[i].idx = b \div CHUNK_SIZE
                         THEN [dict[i] EXCEPT !.mp =
                                 Mmr_update_from_append(@, ms.swbf_inactive.count,
                                                        Chunk_hash(new_chunk),
                                                        ms.swbf_inactive.peaks)]
                         ELSE dict[i]]
                 ELSE dict
        insert == InsertsEntry(dict1, entry, b, batch_index)
        dict2 == IF insert THEN Append(dict1, entry) ELSE dict1
    IN UpdateFromAdditionLoop(dict2, dup \/ (insert /\ has_duplicates(dict2)),
                              bit_indices, k + 1, ms, batch_index)

\* MembershipProof::update_from_addition for a proof whose item has the given
\* bit indices: [mp, dup]
UpdateFromAddition(mp, bit_indices, ms, ar) ==
  LET new_item_index == ms.aocl.count
      batch_index == new_item_index \div BATCH_SIZE
      aocl_path == Mmr_update_from_append(mp.auth_path_aocl, ms.aocl.count,
                                          ar.commitment, ms.aocl.peaks)
      loop == UpdateFromAdditionLoop(mp.target_chunks, FALSE, bit_indices, 1,
                                     ms, batch_index)
  IN IF ~AS_window_slides(new_item_index)
     THEN [mp |-> [mp EXCEPT !.auth_path_aocl = aocl_path], dup |-> FALSE]
     ELSE [mp |-> [mp EXCEPT !.auth_path_aocl = aocl_path,
                             !.target_chunks = loop.dict],
           dup |-> loop.dup]

\* an update that stops after the AOCL authentication path
update_from_addition_aocl_only(mp, own_item, ms, ar) ==
  [mp |-> [mp EXCEPT !.auth_path_aocl =
             Mmr_update_from_append(@, ms.aocl.count, ar.commitment, ms.aocl.peaks)],
   dup |-> FALSE]

\* MembershipProof::update_from_addition (accumulation_scheme.rs)
update_from_addition(mp, own_item, ms, ar) ==
  UpdateFromAddition(mp, get_indices(own_item, mp.randomness,
                                     mp.auth_path_aocl.data_index), ms, ar)

\* the same protocol for a proof of the set_commitment.rs accumulator, whose
\* bit indices are those of get_swbf_indices (or the cached ones)
SC_update_from_addition(mp, own_item, ms, ar) ==
  UpdateFromAddition(mp, ProofIndices(own_item, mp), ms, ar)

\* own chunks left as they are
OwnChunks_unchanged(dict, rr) == dict

\* own chunks with the bits of the removal record set
OwnChunksAfterRemoval(dict, rr) ==
  [i \in 1..Len(dict) |->
     [dict[i] EXCEPT !.chunk =
        SetBits(@, {b % CHUNK_SIZE : b \in BitsOfChunk(rr.bit_indices, dict[i].idx)})]]

\* path update data that is only in the removal record: one (proof, leaf)
\* pair per chunk of the record that the proof does not hold
RECURSIVE RecordOnlyMutations(_, _, _, _)
RecordOnlyMutations(rr, updated, k, acc) ==
  IF k > Len(rr.bit_indices) THEN acc
  ELSE
    LET ci == rr.bit_indices[k] \div CHUNK_SIZE
    IN IF ci \in updated \/ ci \notin DictKeys(rr.target_chunks)
       THEN RecordOnlyMutations(rr, updated, k + 1, acc)
       ELSE LET e == DictGet(rr.target_chunks, ci)
                target_leaf ==
                  SetBits(e.chunk,
                          {b % CHUNK_SIZE : b \in BitsOfChunk(rr.bit_indices, ci)})
            IN RecordOnlyMutations(rr, updated \cup {ci}, k + 1,
                 Append(acc, [mp |-> e.mp, leaf |-> Chunk_hash(target_leaf)]))

\* the (proof, new leaf) pairs update_from_remove hands to the MMR
ModifiedLeafs(mp, rr) ==
  LET own == OwnChunksAfterRemoval(mp.target_chunks, rr)
      self_updated == {ci \in DictKeys(mp.target_chunks) :
                         BitsOfChunk(rr.bit_indices, ci) # {}}
  IN [i \in 1..Len(own) |->
        [mp |-> mp.target_chunks[i].mp, leaf |-> Chunk_hash(own[i].chunk)]]
       \o RecordOnlyMutations(rr, self_updated, 1, <<>>)

\* MembershipProof::update_from_remove
update_from_remove(mp, ms, rr) ==
  LET own == OwnChunksAfterRemoval(mp.target_chunks, rr)
      proofs == Mmr_batch_update_from_batch_leaf_mutation(
                  [i \in 1..Len(own) |-> own[i].mp], ModifiedLeafs(mp, rr))
  IN [mp EXCEPT !.target_chunks =
        [i \in 1..Len(own) |-> [own[i] EXCEPT !.mp = proofs[i]]]]

\* leaf-by-leaf mutation of a copy of the SWBF MMR (the check that ends
\* update_from_remove)
RECURSIVE MutateAll(_, _, _)
MutateAll(mmr, mutations, i) ==
  IF i > Len(mutations) THEN mmr
  ELSE MutateAll(Mmr_mutate_leaf(mmr, mutations[i].mp, mutations[i].leaf),
                 [j \in 1..Len(mutations) |->
                    [mutations[j] EXCEPT !.mp =
                       Mmr_batch_update_from_leaf_mutation(
                         <<@>>, mutations[i].mp, mutations[i].leaf)[1]]],
                 i + 1)

\* the assertions of update_from_remove: the record validates, the proof's
\* own entries verify before, and verify after against the mutated MMR
update_from_remove_panics(mp, ms, rr) ==
  \/ ~validate(rr, ms)
  \/ ~validate([target_chunks |-> mp.target_chunks], ms)
  \/ LET clone == MutateAll(ms.swbf_inactive, ModifiedLeafs(mp, rr), 1)
     IN ~validate([target_chunks |-> update_from_remove(mp, ms, rr).target_chunks],
                  [swbf_inactive |-> clone])

\* ---------------------------------------------------------------- removal_record.rs
\* RemovalRecord::validate (removal_record.rs)
RemovalRecord_validate(rr, ms) ==
  \A i \in 1..Len(rr.target_chunks) :
    Mmr_verify(rr.target_chunks[i].mp, ms.swbf_inactive.peaks,
               Chunk_hash(rr.target_chunks[i].chunk), ms.swbf_inactive.count)

\* HashMap::insert on a chunk dictionary: the entry of the key is replaced
DictInsert(dict, entry) ==
  IF entry.idx \in DictKeys(dict)
  THEN [i \in 1..Len(dict) |-> IF dict[i].idx = entry.idx THEN entry ELSE dict[i]]
  ELSE Append(dict, entry)

\* a slide update that gives no record a new dictionary entry
batch_update_from_addition_paths_only(removal_records, ms) ==
  LET new_chunk_digest == Chunk_hash(SubSeq(ms.swbf_active, 1, CHUNK_SIZE))
  IN IF ~window_slides(ms.aocl.count) THEN removal_records
     ELSE [i \in 1..Len(removal_records) |->
             [removal_records[i] EXCEPT !.target_chunks =
                [k \in 1..Len(@) |->
                   [@[k] EXCEPT !.mp =
                      Mmr_update_from_append(@, ms.swbf_inactive.count,
                                             new_chunk_digest,
                                             ms.swbf_inactive.peaks)]]]]

\* RemovalRecord::batch_update_from_addition
batch_update_from_addition(removal_records, ms) ==
  LET new_item_index == ms.aocl.count
      new_chunk == SubSeq(ms.swbf_active, 1, CHUNK_SIZE)
      new_chunk_digest == Chunk_hash(new_chunk)
      new_swbf_auth_path == Mmr_append(ms.swbf_inactive, new_chunk_digest).mp
      batch_index == new_item_index \div BATCH_SIZE
      old_window_start_batch_index == batch_index - 1
      with_entry(rr) ==
        IF old_window_start_batch_index \in ChunkIndices(rr.bit_indices)
        THEN DictInsert(rr.target_chunks,
                        [idx |-> old_window_start_batch_index,
                         mp |-> new_swbf_auth_path, chunk |-> new_chunk])
        ELSE rr.target_chunks
      appended(rr, dict) ==
        IF \E ci \in ChunkIndices(rr.bit_indices) : ci < old_window_start_batch_index
        THEN [k \in 1..Len(dict) |->
                [dict[k] EXCEPT !.mp =
                   Mmr_update_from_append(@, ms.swbf_inactive.count,
                                          new_chunk_digest, ms.swbf_inactive.peaks)]]
        ELSE dict
  IN IF ~window_slides(new_item_index) THEN removal_records
     ELSE [i \in 1..Len(removal_records) |->
             [removal_records[i] EXCEPT !.target_chunks =
                appended(removal_records[i], with_entry(removal_records[i]))]]

\* shared::get_batch_mutation_argument_for_removal_record: the (proof, new
\* leaf) pairs of the chunks the applied record mutates, from its dictionary
MutationArgument(applied_removal_record) ==
  RecordOnlyMutations(applied_removal_record, {}, 1, <<>>)

\* an update that sets the bits in the records' chunks and leaves their MMR
\* proofs as they are
batch_update_from_remove_bits_only(removal_records, applied_removal_record) ==
  [i \in 1..Len(removal_records) |->
     [removal_records[i] EXCEPT !.target_chunks =
        OwnChunksAfterRemoval(@, applied_removal_record)]]

\* RemovalRecord::batch_update_from_remove
batch_update_from_remove(removal_records, applied_removal_record) ==
  LET mutation_argument == MutationArgument(applied_removal_record)
      own(rr) == OwnChunksAfterRemoval(rr.target_chunks, applied_removal_record)
      own_mmr_mps(rr) ==
        Mmr_batch_update_from_batch_leaf_mutation(
          [k \in 1..Len(own(rr)) |-> own(rr)[k].mp], mutation_argument)
  IN [i \in 1..Len(removal_records) |->
        [removal_records[i] EXCEPT !.target_chunks =
           [k \in 1..Len(@) |->
              [own(removal_records[i])[k] EXCEPT
                 !.mp = own_mmr_mps(removal_records[i])[k]]]]]

\* the Result of RemovalRecord::batch_update_from_remove: the helper's pair is
\* taken as it comes, nothing is propagated with ?, and the only return is the
\* Ok(()) of the last line
batch_update_from_remove_result(removal_records, applied_removal_record) == "Ok"

\* the chunk indices of the archived chunks a removal record mutates: those
\* of its indices it holds a dictionary entry for
MutatedChunks(applied_removal_record) ==
  {b \div CHUNK_SIZE : b \in Range(applied_removal_record.bit_indices)}
    \cap {applied_removal_record.target_chunks[e].idx :
            e \in 1..Len(applied_removal_record.target_chunks)}

\* a record has an index in a chunk the applied record mutates and holds no
\* dictionary entry for that chunk
MissesChunk(rr, applied_removal_record) ==
  \E b \in Range(rr.bit_indices) :
    /\ b \div CHUNK_SIZE \in MutatedChunks(applied_removal_record)
    /\ \A e \in 1..Len(rr.target_chunks) : rr.target_chunks[e].idx # b \div CHUNK_SIZE

\* ---------------------------------------------------------------- batch updates of membership proofs
\* a membership proof seen as the (indices, dictionary) pair the batch
\* protocols work on
AsRecord(item, mp) ==
  [bit_indices |-> ProofIndices(item, mp), target_chunks |-> mp.target_chunks]

\* a batch update that leaves the dictionaries of the proofs alone
MP_batch_update_from_addition_aocl_only(membership_proofs, own_items, ms, ar) ==
  [i \in 1..Len(membership_proofs) |->
     [membership_proofs[i] EXCEPT
        !.auth_path_aocl = Mmr_update_from_append(@, ms.aocl.count, ar.commitment,
                                                  ms.aocl.peaks)]]

\* MembershipProof::batch_update_from_addition: the AOCL paths are updated
\* for the append and, on a slide, the one new (path, chunk) entry is given
\* to every proof with an index in the archived chunk while the other MMR
\* proofs are updated for the append
MP_batch_update_from_addition(membership_proofs, own_items, ms, ar) ==
  LET dicts == batch_update_from_addition(
                 [i \in 1..Len(membership_proofs) |->
                    AsRecord(own_items[i], membership_proofs[i])], ms)
  IN [i \in 1..Len(membership_proofs) |->
        [membership_proofs[i] EXCEPT
           !.auth_path_aocl = Mmr_update_from_append(@, ms.aocl.count, ar.commitment,
                                                     ms.aocl.peaks),
           !.target_chunks = dicts[i].target_chunks]]

\* MembershipProof::batch_update_from_remove: the bits of the record are set
\* in every proof's own chunks and all MMR proofs are updated in one pass
\* from the (proof, new leaf) pairs of the record
MP_batch_update_from_remove(membership_proofs, removal_record) ==
  LET dicts == batch_update_from_remove(
                 [i \in 1..Len(membership_proofs) |->
                    [bit_indices |-> <<>>,
                     target_chunks |-> membership_proofs[i].target_chunks]],
                 removal_record)
  IN [i \in 1..Len(membership_proofs) |->
        [membership_proofs[i] EXCEPT !.target_chunks = dicts[i].target_chunks]]

\* a proof with its dictionary as the map it is
Canonical(mp) ==
  [mp EXCEPT !.target_chunks = {@[k] : k \in 1..Len(@)}]

\* ---------------------------------------------------------------- chunk.rs
\* the longest list of positions held by the chunk under test and by the
\* chunk it is combined with
MaxBits == 4
MaxOtherBits == 2

\* the indices the calls accept (the assertions abort for any other)
ChunkPositions == 0..(CHUNK_SIZE - 1)

\* Chunk::empty_chunk
empty_chunk == [bits |-> <<>>]

\* Vec::sort on integers: ascending, repeated elements kept
sort(seq) == sort_unstable(seq)

\* Chunk::set_bit: push, then sort
set_bit(chunk, index) == [bits |-> sort(Append(chunk.bits, index))]

\* an unset_bit that removes the first occurrence of the index only
unset_bit_first(chunk, index) ==
  IF index \notin Range(chunk.bits) THEN chunk
  ELSE LET d == CHOOSE i \in 1..Len(chunk.bits) :
                  chunk.bits[i] = index /\ \A j \in 1..(i - 1) : chunk.bits[j] # index
       IN [bits |-> SubSeq(chunk.bits, 1, d - 1)
                      \o SubSeq(chunk.bits, d + 1, Len(chunk.bits))]

\* Chunk::unset_bit: every occurrence of the index is removed
unset_bit(chunk, index) == [bits |-> SelectSeq(chunk.bits, LAMBDA x : x # index)]

\* Chunk::get_bit
get_bit(chunk, index) == index \in Range(chunk.bits)

\* Chunk::or: both lists, sorted
or(self, other) == [bits |-> sort(self.bits \o other.bits)]

\* the second loop of xor_assign: the elements of other not yet in the list
\* are pushed
RECURSIVE push_missing(_, _)
push_missing(bits, other_bits) ==
  IF other_bits = <<>> THEN bits
  ELSE push_missing(IF Head(other_bits) \in Range(bits) THEN bits
                    ELSE Append(bits, Head(other_bits)),
                    Tail(other_bits))

\* Chunk::xor_assign: the positions of the elements found in other are
\* recorded, the missing elements of other are pushed, the recorded positions
\* are removed, the list is sorted
xor_assign(self, other) ==
  LET n == Len(self.bits)
      drops == {i \in 1..n : self.bits[i] \in Range(other.bits)}
      pushed == push_missing(self.bits, other.bits)
      kept(i) == IF i \in drops THEN <<>> ELSE <<pushed[i]>>
      RECURSIVE remaining(_)
      remaining(i) == IF i > Len(pushed) THEN <<>> ELSE kept(i) \o remaining(i + 1)
  IN [bits |-> sort(remaining(1))]

\* Chunk::and: the elements of self that other contains, in the order of self
and(self, other) ==
  [bits |-> SelectSeq(self.bits, LAMBDA x : x \in Range(other.bits))]

\* Chunk::is_unset
is_unset(chunk) == \A i \in 1..Len(chunk.bits) : chunk.bits[i] = 0

\* Hashable::to_sequence: one field element per stored position
to_sequence(chunk) == [i \in 1..Len(chunk.bits) |-> chunk.bits[i]]

\* ---------------------------------------------------------------- state
VARIABLES
  ms,       \* the SetCommitment: aocl, swbf_inactive, swbf_active
  tracked,  \* the items added so far, each with its membership proof
  stale,    \* the proof of the item removed last, as it was handed to drop
  last,     \* the operation that produced the state
  panic,    \* "none", or the assertion / unwrap that aborted the program
  records,  \* the removal records made by drop that wait to be applied
  chunks,   \* the chunk history: the archived chunks, by chunk index
  chunk_a,  \* chunk.rs: the Chunk under test
  chunk_b,  \* chunk.rs: the Chunk it is combined with
  chunk_calls,  \* chunk.rs: the calls made on chunk_a
  derivation,  \* get_swbf_indices: the call in progress, step by step
  monitored_utxos,  \* wallet_db.monitored_utxos
  sync_label,  \* wallet_db: the block the wallet says it is synced to
  resync,  \* the calls of resync_membership_proofs_to_tip so far, and the last tip
  miner,  \* mine_loop.rs: the position of mine, its locals and its worker task
  main,  \* the main loop: its tip
  from_main,  \* the watch channel main -> miner: the value, and whether it is unseen
  to_main,  \* the mpsc channel miner -> main
  forest,  \* the blocks found so far: forest[b] is the block that b is built on
  owed  \* the block of a NewBlock message sent while the miner's block was in flight

vars == <<ms, tracked, stale, last, panic, records, chunks, chunk_a, chunk_b, chunk_calls, derivation, monitored_utxos, sync_label, resync,
         miner, main, from_main, to_main, forest, owed>>

rrvars == <<records, chunks>>

cvars == <<chunk_a, chunk_b, chunk_calls>>

msvars == <<ms, tracked, stale, last, panic, records, chunks>>

nodevars == <<derivation, monitored_utxos, sync_label, resync, miner, main, from_main, to_main, forest, owed>>



Init ==
  /\ ms = SetCommitment_default
  /\ tracked = <<>>
  /\ stale = <<>>
  /\ last = [op |-> "init", slid |-> FALSE, who |-> 0, snapshot |-> EmptyMmr]
  /\ panic = "none"
  /\ records = <<>>
  /\ chunks = <<>>
  /\ chunk_a = empty_chunk
  /\ chunk_b = empty_chunk
  /\ chunk_calls = [op |-> "empty_chunk", index |-> 0,
                    recent |-> [i \in ChunkPositions |-> "never"],
                    only_set_unset |-> TRUE]
  /\ derivation = [pc |-> "idle", item |-> to_digest(0), randomness |-> to_digest(0),
                   aocl_leaf_index |-> 0, indices |-> <<>>, j |-> 0]
  /\ monitored_utxos = <<>>
  /\ sync_label = 0
  /\ resync = [calls |-> 0, tip_hash |-> 0]
  /\ miner = [pc |-> "top", latest_block |-> 0, pause_mine |-> FALSE, worker |-> -1]
  /\ main = [tip |-> 0]
  /\ from_main = [value |-> [type |-> "Empty", block |-> -1], unseen |-> FALSE]
  /\ to_main = <<>>
  /\ forest = <<>>
  /\ owed = -1

\* the items and randomness a caller may present, and whether it asks prove
\* to cache the bit indices
Items == {1, 2}
Rand == 7
StoreBits(item) == item = 1

\* ---------------------------------------------------------------- set_commitment.rs steps
\* one addition as the callers run it: commit and prove the new item, update
\* every held proof for the addition record, then add_helper
AddItem(item, randomness, store_bits) ==
  /\ panic = "none"
  /\ ms.aocl.count < MaxLeaves
  /\ LET ar == commit(ms, item, randomness)
         mp == prove(ms, item, randomness, store_bits)
         upd(t) == SC_update_from_addition(t.mp, t.item, ms, ar)
     IN IF ~has_matching_aocl(ar, ms.aocl)
        THEN /\ panic' = "add: aocl snapshot"
             /\ UNCHANGED <<ms, tracked, stale>>
        ELSE IF \E i \in 1..Len(tracked) : upd(tracked[i]).dup
        THEN /\ panic' = "update_from_addition: has_duplicates"
             /\ UNCHANGED <<ms, tracked, stale>>
        ELSE /\ ms' = add_helper(ms, ar)
             /\ tracked' =
                  [i \in 1..Len(tracked) |-> [tracked[i] EXCEPT !.mp = upd(tracked[i]).mp]]
                  \o <<[item |-> item, mp |-> mp, removed |-> FALSE]>>
             /\ stale' = [i \in 1..Len(stale) |-> [stale[i] EXCEPT !.mp = upd(stale[i]).mp]]
             /\ panic' = "none"
  /\ last' = [op |-> "add",
              slid |-> (ms'.swbf_inactive.count # ms.swbf_inactive.count),
              who |-> Len(tracked) + 1,
              snapshot |-> ms.aocl]
  /\ UNCHANGED <<rrvars, cvars, nodevars>>

\* a held proof after update_from_remove; a proof the update asserts on is
\* left as it is
UpdatedForRemoval(mp, rr) ==
  IF update_from_remove_panics(mp, ms, rr) THEN mp ELSE update_from_remove(mp, ms, rr)

\* one removal as the callers run it: drop a tracked item whose proof
\* verifies, update every held proof for the removal record, then
\* remove_helper
Remove(i) ==
  /\ panic = "none"
  /\ i \in 1..Len(tracked)
  /\ ~tracked[i].removed
  /\ verify(ms, tracked[i].item, tracked[i].mp)
  /\ LET rr == drop(ms, tracked[i].item, tracked[i].mp)
     IN IF remove_helper_panics(ms, rr)
        THEN /\ panic' = "remove_helper"
             /\ \E S \in SUBSET ActiveChunks(ms, rr) :
                  ms' = remove_helper_aborted(ms, rr, S)
             /\ UNCHANGED <<tracked, stale>>
        ELSE IF \E j \in 1..Len(tracked) :
                  /\ ~tracked[j].removed
                  /\ update_from_remove_panics(tracked[j].mp, ms, rr)
        THEN /\ panic' = "update_from_remove"
             /\ UNCHANGED <<ms, tracked, stale>>
        ELSE /\ ms' = remove_helper(ms, rr)
             /\ tracked' =
                  [j \in 1..Len(tracked) |->
                     [tracked[j] EXCEPT
                        !.mp = IF tracked[j].removed THEN UpdatedForRemoval(@, rr)
                               ELSE update_from_remove(@, ms, rr),
                        !.removed = IF j = i THEN TRUE ELSE @]]
             /\ stale' = <<[item |-> tracked[i].item, mp |-> tracked[i].mp]>>
             /\ panic' = "none"
  /\ last' = [op |-> "remove", slid |-> FALSE, who |-> i, snapshot |-> last.snapshot]
  /\ UNCHANGED <<rrvars, cvars, nodevars>>

\* add_helper called with a second record that was committed against the
\* state the most recent addition started from
AddSecond(item, randomness) ==
  /\ panic = "none"
  /\ ms.aocl.count > 0
  /\ ms.aocl.count < MaxLeaves
  /\ LET ar == commit([ms EXCEPT !.aocl = last.snapshot], item, randomness)
     IN IF ~has_matching_aocl(ar, ms.aocl)
        THEN /\ panic' = "add: aocl snapshot"
             /\ ms' = ms
        ELSE /\ panic' = "none"
             /\ ms' = add_helper(ms, ar)
  /\ last' = [last EXCEPT !.op = "add_second"]
  /\ UNCHANGED <<tracked, stale, rrvars, cvars, nodevars>>

\* index lists a caller may have stored in cached_bits (<<>> is None)
CachedBits == {<<>>, <<1, 4>>, <<2, 9>>}

\* the proofs handed to verify: the held proof of leaf i - 1 or, one past
\* the last leaf, the proof prove issues for the next leaf; with any cached
\* index list
ProofToVerify(i, cached) ==
  IF i <= Len(tracked)
  THEN [item |-> tracked[i].item, mp |-> [tracked[i].mp EXCEPT !.cached_bits = cached]]
  ELSE [item |-> to_digest(1),
        mp |-> [prove(ms, to_digest(1), to_digest(Rand), FALSE)
                  EXCEPT !.cached_bits = cached]]

\* a call of verify (&self): the mutator set and the proofs are not touched
Verify(i, cached) ==
  /\ panic = "none"
  /\ i <= Len(tracked) + 1
  /\ LET t == ProofToVerify(i, cached)
     IN panic' \in verify_outcomes(ms, t.item, t.mp)
  /\ UNCHANGED <<ms, tracked, stale, last, rrvars, cvars, nodevars>>

Next ==
  \/ \E item \in Items : AddItem(to_digest(item), to_digest(Rand), StoreBits(item))
  \/ \E item \in Items : AddSecond(to_digest(item), to_digest(Rand))
  \/ \E i \in 1..MaxLeaves : Remove(i)
  \/ \E i \in 1..MaxLeaves, cached \in CachedBits : Verify(i, cached)

Spec == Init /\ [][Next]_vars

\* ---------------------------------------------------------------- accumulation_scheme.rs steps
AS_AddItem(item, randomness) ==
  /\ panic = "none"
  /\ ms.aocl.count < MaxLeaves
  /\ LET ar == commit(ms, item, randomness)
         mp == AS_prove(ms, item, randomness)
         upd(t) == update_from_addition(t.mp, t.item, ms, ar)
     IN IF ~has_matching_aocl(ar, ms.aocl)
        THEN /\ panic' = "add: aocl snapshot"
             /\ UNCHANGED <<ms, tracked, stale>>
        ELSE IF \E i \in 1..Len(tracked) : upd(tracked[i]).dup
        THEN /\ panic' = "update_from_addition: has_duplicates"
             /\ UNCHANGED <<ms, tracked, stale>>
        ELSE /\ ms' = AS_add(ms, ar)
             /\ tracked' =
                  [i \in 1..Len(tracked) |-> [tracked[i] EXCEPT !.mp = upd(tracked[i]).mp]]
                  \o <<[item |-> item, mp |-> mp, removed |-> FALSE]>>
             /\ stale' = [i \in 1..Len(stale) |-> [stale[i] EXCEPT !.mp = upd(stale[i]).mp]]
             /\ panic' = "none"
  /\ last' = [op |-> "add",
              slid |-> (ms'.swbf_inactive.count # ms.swbf_inactive.count),
              who |-> Len(tracked) + 1,
              snapshot |-> ms.aocl]
  /\ UNCHANGED <<rrvars, cvars, nodevars>>

AS_Remove(i) ==
  /\ panic = "none"
  /\ i \in 1..Len(tracked)
  /\ ~tracked[i].removed
  /\ AS_verify(ms, tracked[i].item, tracked[i].mp)
  /\ LET rr == AS_drop(ms, tracked[i].item, tracked[i].mp)
     IN IF \E j \in 1..Len(tracked) :
             /\ ~tracked[j].removed
             /\ update_from_remove_panics(tracked[j].mp, ms, rr)
        THEN /\ panic' = "update_from_remove"
             /\ UNCHANGED <<ms, tracked, stale>>
        ELSE IF AS_remove_panics(ms, rr)
        THEN /\ panic' = "remove"
             /\ UNCHANGED <<ms, tracked, stale>>
        ELSE /\ ms' = AS_remove(ms, rr)
             /\ tracked' =
                  [j \in 1..Len(tracked) |->
                     [tracked[j] EXCEPT !.mp = UpdatedForRemoval(@, rr),
                                        !.removed = IF j = i THEN TRUE ELSE @]]
             /\ stale' = <<[item |-> tracked[i].item, mp |-> tracked[i].mp]>>
             /\ panic' = "none"
  /\ last' = [op |-> "remove", slid |-> FALSE, who |-> i, snapshot |-> last.snapshot]
  /\ UNCHANGED <<rrvars, cvars, nodevars>>

NextAS ==
  \/ \E item \in Items : AS_AddItem(to_digest(item), to_digest(Rand))
  \/ \E i \in 1..MaxLeaves : AS_Remove(i)

SpecAS == Init /\ [][NextAS]_vars

\* ---------------------------------------------------------------- removal_record.rs steps
\* the pending record k with the update of a step applied, or skipped: a
\* record that misses an update which would have changed it is no longer
\* synchronized
RecordsAfter(updated, update_records) ==
  [k \in 1..Len(records) |->
     IF update_records THEN [records[k] EXCEPT !.rr = updated[k]]
     ELSE [records[k] EXCEPT !.synced = @ /\ updated[k] = records[k].rr]]

\* the chunk history with the archived bits of a removal record set
ChunksAfterRemoval(history, rr) ==
  [c \in 1..Len(history) |->
     SetBits(history[c], {b % CHUNK_SIZE : b \in BitsOfChunk(rr.bit_indices, c - 1)})]

\* no step follows the application of a record that was not kept up to date
Usable == panic = "none" /\ last.op # "remove_unsynchronized"

\* one addition with removal records pending: the records are updated with
\* batch_update_from_addition (or the caller skips that), the held proofs are
\* updated, then add_helper
RR_AddItem(item, randomness, store_bits, update_records) ==
  /\ Usable
  /\ ms.aocl.count < MaxLeaves
  /\ LET ar == commit(ms, item, randomness)
         mp == prove(ms, item, randomness, store_bits)
         upd(t) == SC_update_from_addition(t.mp, t.item, ms, ar)
         updated == batch_update_from_addition(
                      [k \in 1..Len(records) |-> records[k].rr], ms)
     IN /\ ms' = add_helper(ms, ar)
        /\ tracked' =
             [i \in 1..Len(tracked) |-> [tracked[i] EXCEPT !.mp = upd(tracked[i]).mp]]
             \o <<[item |-> item, mp |-> mp, removed |-> FALSE]>>
        /\ records' = RecordsAfter(updated, update_records)
        /\ chunks' = IF window_slides(ms.aocl.count)
                     THEN Append(chunks, SubSeq(ms.swbf_active, 1, CHUNK_SIZE))
                     ELSE chunks
  /\ last' = [op |-> "add",
              slid |-> (ms'.swbf_inactive.count # ms.swbf_inactive.count),
              who |-> Len(tracked) + 1,
              snapshot |-> ms.aocl]
  /\ UNCHANGED <<stale, panic, cvars, nodevars>>

\* drop: a removal record for a held item whose proof verifies
RR_Drop(i) ==
  /\ Usable
  /\ i \in 1..Len(tracked)
  /\ Len(records) < MaxRecords
  /\ ~tracked[i].removed
  /\ \A k \in 1..Len(records) : records[k].who # i
  /\ verify(ms, tracked[i].item, tracked[i].mp)
  /\ records' = Append(records, [who |-> i,
                                 rr |-> drop(ms, tracked[i].item, tracked[i].mp),
                                 synced |-> TRUE, applied |-> FALSE])
  /\ last' = [last EXCEPT !.op = "drop", !.who = i, !.slid = FALSE]
  /\ UNCHANGED <<ms, tracked, stale, panic, chunks, cvars, nodevars>>

\* the pending record k is applied: the records are updated with
\* batch_update_from_remove (or the caller skips that), the held proofs are
\* updated, then remove_helper, which iterates its hash map in some order
RR_Remove(k, update_records) ==
  /\ Usable
  /\ k \in 1..Len(records)
  /\ ~records[k].applied
  /\ LET rr == records[k].rr
         updated == batch_update_from_remove(
                      [j \in 1..Len(records) |-> records[j].rr], rr)
     IN IF remove_helper_panics(ms, rr)
        THEN /\ panic' = "remove_helper"
             /\ \E S \in SUBSET ActiveChunks(ms, rr) :
                  ms' = remove_helper_aborted(ms, rr, S)
             /\ UNCHANGED <<tracked, records, chunks>>
        ELSE /\ panic' = "none"
             /\ \E order \in Orders(Len(rr.target_chunks)) :
                  ms' = RemoveInOrder(ms, rr, (ms.aocl.count - 1) \div BATCH_SIZE, order)
             /\ tracked' =
                  [j \in 1..Len(tracked) |->
                     [tracked[j] EXCEPT !.mp = UpdatedForRemoval(@, rr),
                                        !.removed = IF j = records[k].who THEN TRUE ELSE @]]
             /\ records' = [RecordsAfter(updated, update_records) EXCEPT ![k].applied = TRUE]
             /\ chunks' = ChunksAfterRemoval(chunks, rr)
  /\ last' = [last EXCEPT
                !.op = IF records[k].synced THEN "remove" ELSE "remove_unsynchronized",
                !.who = k, !.slid = FALSE]
  /\ UNCHANGED <<stale, cvars, nodevars>>

\* a record that was applied and kept up to date since (its own application
\* included) is chosen again, as the test does: the records are updated with
\* batch_update_from_remove, then remove_helper
RR_RemoveAgain(k) ==
  /\ Usable
  /\ k \in 1..Len(records)
  /\ records[k].applied
  /\ records[k].synced
  /\ LET rr == records[k].rr
         updated == batch_update_from_remove(
                      [j \in 1..Len(records) |-> records[j].rr], rr)
     IN IF remove_helper_panics(ms, rr)
        THEN /\ panic' = "remove_helper"
             /\ \E S \in SUBSET ActiveChunks(ms, rr) :
                  ms' = remove_helper_aborted(ms, rr, S)
             /\ UNCHANGED <<records, chunks>>
        ELSE /\ panic' = "none"
             /\ \E order \in Orders(Len(rr.target_chunks)) :
                  ms' = RemoveInOrder(ms, rr, (ms.aocl.count - 1) \div BATCH_SIZE, order)
             /\ records' = RecordsAfter(updated, TRUE)
             /\ chunks' = ChunksAfterRemoval(chunks, rr)
  /\ last' = [last EXCEPT !.op = "remove_again", !.who = k, !.slid = FALSE]
  /\ UNCHANGED <<tracked, stale, cvars, nodevars>>

\* the item added while removal records are pending is the one whose indices
\* fall into two chunks at most leaf indices
NextRR ==
  \/ \E item \in {2}, update_records \in BOOLEAN :
       RR_AddItem(to_digest(item), to_digest(Rand), StoreBits(item), update_records)
  \/ \E i \in 1..MaxLeaves : RR_Drop(i)
  \/ \E k \in 1..MaxRecords, update_records \in BOOLEAN : RR_Remove(k, update_records)
  \/ \E k \in 1..MaxRecords : RR_RemoveAgain(k)

SpecRR == Init /\ [][NextRR]_vars

\* ---------------------------------------------------------------- chunk.rs steps
\* the record of a call on the chunk under test
Called(op, index) ==
  [op |-> op, index |-> index,
   recent |-> IF op \in {"set_bit", "unset_bit"}
              THEN [chunk_calls.recent EXCEPT ![index] = op]
              ELSE chunk_calls.recent,
   only_set_unset |-> chunk_calls.only_set_unset /\ op \in {"set_bit", "unset_bit"}]

Chunk_set_bit(index) ==
  /\ Len(chunk_a.bits) < MaxBits
  /\ chunk_a' = set_bit(chunk_a, index)
  /\ chunk_calls' = Called("set_bit", index)
  /\ UNCHANGED <<chunk_b, msvars, nodevars>>

Chunk_unset_bit(index) ==
  /\ chunk_a' = unset_bit(chunk_a, index)
  /\ chunk_calls' = Called("unset_bit", index)
  /\ UNCHANGED <<chunk_b, msvars, nodevars>>

Chunk_or ==
  /\ Len(chunk_a.bits) + Len(chunk_b.bits) <= MaxBits
  /\ chunk_a' = or(chunk_a, chunk_b)
  /\ chunk_calls' = Called("or", 0)
  /\ UNCHANGED <<chunk_b, msvars, nodevars>>

Chunk_and ==
  /\ chunk_a' = and(chunk_a, chunk_b)
  /\ chunk_calls' = Called("and", 0)
  /\ UNCHANGED <<chunk_b, msvars, nodevars>>

Chunk_xor_assign ==
  /\ Len(xor_assign(chunk_a, chunk_b).bits) <= MaxBits
  /\ chunk_a' = xor_assign(chunk_a, chunk_b)
  /\ chunk_calls' = Called("xor_assign", 0)
  /\ UNCHANGED <<chunk_b, msvars, nodevars>>

\* the other operand is built with set_bit
Chunk_other_set_bit(index) ==
  /\ Len(chunk_b.bits) < MaxOtherBits
  /\ chunk_b' = set_bit(chunk_b, index)
  /\ UNCHANGED <<chunk_a, chunk_calls, msvars, nodevars>>

NextChunk ==
  \/ \E index \in ChunkPositions : Chunk_set_bit(index)
  \/ \E index \in ChunkPositions : Chunk_unset_bit(index)
  \/ Chunk_or
  \/ Chunk_and
  \/ Chunk_xor_assign
  \/ \E index \in ChunkPositions : Chunk_other_set_bit(index)

SpecChunk == Init /\ [][NextChunk]_vars

\* ---------------------------------------------------------------- get_swbf_indices, step by step
\* the largest counter the loop may reach in the model
MaxCounter == 6

\* get_swbf_indices is called: the parallel map over the counters
\* 0..NUM_TRIALS-1 is collected into the vector, the results placed in the
\* order in which the counters complete
Derive_call(item, randomness, aocl_leaf_index, order) ==
  /\ derivation.pc \in {"idle", "returned"}
  /\ derivation' =
       [pc |-> "collected", item |-> item, randomness |-> randomness,
        aocl_leaf_index |-> aocl_leaf_index,
        indices |-> [i \in 1..NUM_TRIALS |->
                       SampleIndex(item, randomness, aocl_leaf_index, order[i] - 1)],
        j |-> 0]
  /\ UNCHANGED <<msvars, cvars, monitored_utxos, sync_label, resync, miner, main, from_main, to_main, forest, owed>>

\* indices.sort_unstable(); indices.dedup(); let mut j = NUM_TRIALS
Derive_sort ==
  /\ derivation.pc = "collected"
  /\ derivation' =
       [derivation EXCEPT !.pc = "loop",
                          !.indices = dedup(sort_unstable(derivation.indices)),
                          !.j = NUM_TRIALS]
  /\ UNCHANGED <<msvars, cvars, monitored_utxos, sync_label, resync, miner, main, from_main, to_main, forest, owed>>

\* one pass of the while loop: sample with counter j, push, sort, dedup, j += 1
Derive_loop ==
  /\ derivation.pc = "loop"
  /\ Len(derivation.indices) < NUM_TRIALS
  /\ derivation.j < MaxCounter
  /\ derivation' =
       [derivation EXCEPT
          !.indices = dedup(sort_unstable(Append(
                        derivation.indices,
                        SampleIndex(derivation.item, derivation.randomness,
                                    derivation.aocl_leaf_index, derivation.j)))),
          !.j = derivation.j + 1]
  /\ UNCHANGED <<msvars, cvars, monitored_utxos, sync_label, resync, miner, main, from_main, to_main, forest, owed>>

\* the loop condition fails: indices.try_into().unwrap() and return
Derive_return ==
  /\ derivation.pc = "loop"
  /\ Len(derivation.indices) >= NUM_TRIALS
  /\ derivation' =
       [derivation EXCEPT
          !.pc = IF Len(derivation.indices) = NUM_TRIALS
                 THEN "returned" ELSE "unwrap"]
  /\ UNCHANGED <<msvars, cvars, monitored_utxos, sync_label, resync, miner, main, from_main, to_main, forest, owed>>

NextDerive ==
  \/ \E item \in Items, randomness \in {Rand, Rand + 1, Rand + 2},
        aocl_leaf_index \in 0..MaxLeaves, order \in Orders(NUM_TRIALS) :
       Derive_call(to_digest(item), to_digest(randomness), aocl_leaf_index, order)
  \/ Derive_sort
  \/ Derive_loop
  \/ Derive_return

\* the body of get_swbf_indices is straight-line code and one loop: once
\* called, each of its statements is eventually run
SpecDerive ==
  /\ Init
  /\ [][NextDerive]_vars
  /\ WF_vars(Derive_sort)
  /\ WF_vars(Derive_loop)
  /\ WF_vars(Derive_return)

\* ---------------------------------------------------------------- models/state/mod.rs
\* the block tree of the archival state: genesis 0 and two chains that fork at
\* genesis, the odd blocks 1, 3, ... and the even blocks 2, 4, ...
MaxBlocks == 4
MaxUtxos == 2
MaxResyncs == 2

NoBlock == -1

\* the block a block is built on
Parent(b) == IF b <= 2 THEN 0 ELSE b - 2

\* a block and the blocks below it, down to genesis
RECURSIVE Ancestors(_)
Ancestors(b) == IF b = 0 THEN {0} ELSE {b} \cup Ancestors(Parent(b))

\* ArchivalState::find_path: the blocks to revert from start down to the last
\* common ancestor, the ancestor, and the blocks to apply from it up to stop
find_path(start, stop) ==
  LET common == Ancestors(start) \cap Ancestors(stop)
      luca == CHOOSE x \in common : \A y \in common : y <= x
      down == SortedSeq({x \in Ancestors(start) : x > luca})
  IN [backwards |-> [k \in 1..Len(down) |-> down[Len(down) + 1 - k]],
      luca |-> luca,
      forwards |-> SortedSeq({x \in Ancestors(stop) : x > luca})]

\* MonitoredUtxo::is_synced_to: a membership proof is stored for the block
is_synced_to(monitored_utxo, tip_hash) ==
  \E k \in 1..Len(monitored_utxo.entries) :
    monitored_utxo.entries[k].block_hash = tip_hash

\* MonitoredUtxo::get_latest_membership_proof_entry
get_latest_membership_proof_entry(monitored_utxo) ==
  monitored_utxo.entries[Len(monitored_utxo.entries)]

\* MonitoredUtxo::add_membership_proof_for_tip
add_membership_proof_for_tip(monitored_utxo, tip_hash, membership_proof) ==
  [monitored_utxo EXCEPT
     !.entries = Append(@, [block_hash |-> tip_hash, valid_for |-> membership_proof])]

\* the walk backwards: after a block is reverted the proof is one for the
\* mutator set of the block below it
RECURSIVE WalkBackwards(_, _)
WalkBackwards(membership_proof, backwards) ==
  IF backwards = <<>> THEN membership_proof
  ELSE WalkBackwards(Parent(backwards[1]), Tail(backwards))

\* the walk forwards: the block that confirmed the UTXO is passed over, every
\* other block's additions and removals are applied to the proof
RECURSIVE WalkForwards(_, _, _)
WalkForwards(membership_proof, forwards, confirming_block) ==
  IF forwards = <<>> THEN membership_proof
  ELSE WalkForwards(IF confirming_block = forwards[1]
                    THEN membership_proof ELSE forwards[1],
                    Tail(forwards), confirming_block)

\* the UTXO was confirmed in one of the blocks that the walk to tip_hash reverts
ConfirmedInRevertedBlock(monitored_utxo, tip_hash) ==
  /\ monitored_utxo.confirmed_in_block # NoBlock
  /\ monitored_utxo.entries # <<>>
  /\ LET path == find_path(get_latest_membership_proof_entry(monitored_utxo).block_hash,
                           tip_hash)
     IN \E k \in 1..Len(path.backwards) :
          path.backwards[k] = monitored_utxo.confirmed_in_block

\* the loop 'outer of resync_membership_proofs_to_tip from index i on: synced
\* and unconfirmed UTXOs are passed over, a UTXO confirmed in a reverted block
\* ends the loop (break 'outer), every other one gets its proof walked to the
\* tip and stored
RECURSIVE resync_loop(_, _, _)
resync_loop(utxos, i, tip_hash) ==
  IF i > Len(utxos) THEN utxos
  ELSE LET monitored_utxo == utxos[i]
       IN IF is_synced_to(monitored_utxo, tip_hash)
          THEN resync_loop(utxos, i + 1, tip_hash)
          ELSE IF monitored_utxo.confirmed_in_block = NoBlock
          THEN resync_loop(utxos, i + 1, tip_hash)
          ELSE LET entry == get_latest_membership_proof_entry(monitored_utxo)
                   path == find_path(entry.block_hash, tip_hash)
                   reverted == WalkBackwards(entry.valid_for, path.backwards)
                   applied == WalkForwards(reverted, path.forwards,
                                           monitored_utxo.confirmed_in_block)
               IN IF ConfirmedInRevertedBlock(monitored_utxo, tip_hash)
                  THEN utxos
                  ELSE resync_loop(
                         [utxos EXCEPT ![i] =
                            add_membership_proof_for_tip(monitored_utxo, tip_hash, applied)],
                         i + 1, tip_hash)

\* the wallet starts to monitor a UTXO: one not confirmed yet, or one with the
\* block that confirmed it and the membership proof for that block
Wallet_monitor(confirmed_in_block) ==
  /\ Len(monitored_utxos) < MaxUtxos
  /\ monitored_utxos' =
       Append(monitored_utxos,
              [utxo |-> Len(monitored_utxos) + 1,
               confirmed_in_block |-> confirmed_in_block,
               entries |-> IF confirmed_in_block = NoBlock THEN <<>>
                           ELSE <<[block_hash |-> confirmed_in_block,
                                   valid_for |-> confirmed_in_block]>>])
  /\ UNCHANGED <<sync_label, resync, msvars, cvars, derivation, miner, main, from_main, to_main, forest, owed>>

\* GlobalState::resync_membership_proofs_to_tip
Resync(tip_hash) ==
  /\ resync.calls < MaxResyncs
  /\ monitored_utxos' = resync_loop(monitored_utxos, 1, tip_hash)
  /\ sync_label' = tip_hash
  /\ resync' = [calls |-> resync.calls + 1, tip_hash |-> tip_hash]
  /\ UNCHANGED <<msvars, cvars, derivation, miner, main, from_main, to_main, forest, owed>>

NextWallet ==
  \/ \E confirmed_in_block \in (0..MaxBlocks) \cup {NoBlock} : Wallet_monitor(confirmed_in_block)
  \/ \E tip_hash \in 0..MaxBlocks : Resync(tip_hash)

SpecWallet == Init /\ [][NextWallet]_vars

\* ---------------------------------------------------------------- mine_loop.rs
\* the top of the loop of mine: when the node is neither syncing nor paused a
\* block template is built on latest_block and the worker task is spawned on it
Miner_build(syncing) ==
  /\ miner.pc = "top"
  /\ miner' = [miner EXCEPT
                 !.pc = "select",
                 !.worker = IF syncing \/ miner.pause_mine
                            THEN NoBlock ELSE miner.latest_block]
  /\ owed' = IF syncing \/ miner.pause_mine THEN owed ELSE NoBlock
  /\ UNCHANGED <<main, from_main, to_main, forest, msvars, cvars, derivation, monitored_utxos, sync_label, resync>>

\* select!, first branch: from_main.changed() returns and marks the value seen
Miner_changed ==
  /\ miner.pc = "select"
  /\ from_main.unseen
  /\ miner' = [miner EXCEPT !.pc = "main_message"]
  /\ from_main' = [from_main EXCEPT !.unseen = FALSE]
  /\ UNCHANGED <<main, to_main, forest, owed, msvars, cvars, derivation, monitored_utxos, sync_label, resync>>

\* select!, first branch: borrow_and_update and the match on the message;
\* the worker is aborted, or its handle and its receiver are dropped
Miner_main_message ==
  /\ miner.pc = "main_message"
  /\ LET main_message == from_main.value
     IN miner' =
          [pc |-> IF main_message.type = "Shutdown" THEN "done" ELSE "top",
           latest_block |-> IF main_message.type = "NewBlock"
                            THEN main_message.block ELSE miner.latest_block,
           pause_mine |-> IF main_message.type = "StopMining" THEN TRUE
                          ELSE IF main_message.type = "StartMining" THEN FALSE
                          ELSE miner.pause_mine,
           worker |-> NoBlock]
  /\ from_main' = [from_main EXCEPT !.unseen = FALSE]
  /\ UNCHANGED <<main, to_main, forest, owed, msvars, cvars, derivation, monitored_utxos, sync_label, resync>>

\* select!, second branch: the worker found a block on its template; it
\* becomes latest_block and is reported to main as NewBlockFound
Miner_found ==
  /\ miner.pc = "select"
  /\ miner.worker # NoBlock
  /\ Len(forest) < MaxBlocks
  /\ LET new_block == Len(forest) + 1
     IN /\ forest' = Append(forest, miner.worker)
        /\ miner' = [miner EXCEPT !.pc = "wait_changed",
                                  !.latest_block = new_block,
                                  !.worker = NoBlock]
        /\ to_main' = Append(to_main, new_block)
  /\ UNCHANGED <<main, from_main, owed, msvars, cvars, derivation, monitored_utxos, sync_label, resync>>

\* after the report: from_main.changed().await returns and marks the value seen
Miner_wait_changed ==
  /\ miner.pc = "wait_changed"
  /\ from_main.unseen
  /\ miner' = [miner EXCEPT !.pc = "wait_borrow"]
  /\ from_main' = [from_main EXCEPT !.unseen = FALSE]
  /\ UNCHANGED <<main, to_main, forest, owed, msvars, cvars, derivation, monitored_utxos, sync_label, resync>>

\* after the report: from_main.borrow(); a message other than
\* ReadyToMineNextBlock is logged as an error and nothing else is done
Miner_wait_borrow ==
  /\ miner.pc = "wait_borrow"
  /\ miner' = [miner EXCEPT !.pc = "top"]
  /\ UNCHANGED <<main, from_main, to_main, forest, owed, msvars, cvars, derivation, monitored_utxos, sync_label, resync>>

\* main gets a block from a peer that extends its tip: the block is the new
\* tip and the miner is told NewBlock (a send on the watch channel replaces
\* the value and marks it unseen)
Main_peer_block ==
  /\ Len(forest) < MaxBlocks
  /\ LET block == Len(forest) + 1
     IN /\ forest' = Append(forest, main.tip)
        /\ main' = [main EXCEPT !.tip = block]
        /\ from_main' = [value |-> [type |-> "NewBlock", block |-> block], unseen |-> TRUE]
        /\ owed' = IF to_main # <<>> \/ owed # NoBlock THEN block ELSE owed
  /\ UNCHANGED <<miner, to_main, msvars, cvars, derivation, monitored_utxos, sync_label, resync>>

\* main handles NewBlockFound: a block built on its tip is the new tip, any
\* other block is put aside; the miner is told ReadyToMineNextBlock
Main_block_found ==
  /\ to_main # <<>>
  /\ main' = [main EXCEPT !.tip = IF forest[Head(to_main)] = main.tip
                                  THEN Head(to_main) ELSE main.tip]
  /\ to_main' = Tail(to_main)
  /\ from_main' = [value |-> [type |-> "ReadyToMineNextBlock", block |-> NoBlock], unseen |-> TRUE]
  /\ UNCHANGED <<miner, forest, owed, msvars, cvars, derivation, monitored_utxos, sync_label, resync>>

\* main tells the miner to stop, to start or to shut down
Main_command(type) ==
  /\ from_main' = [value |-> [type |-> type, block |-> NoBlock], unseen |-> TRUE]
  /\ UNCHANGED <<miner, main, to_main, forest, owed, msvars, cvars, derivation, monitored_utxos, sync_label, resync>>

NextMine ==
  \/ \E syncing \in BOOLEAN : Miner_build(syncing)
  \/ Miner_changed
  \/ Miner_main_message
  \/ Miner_found
  \/ Miner_wait_changed
  \/ Miner_wait_borrow
  \/ Main_peer_block
  \/ Main_block_found
  \/ \E type \in {"StopMining", "StartMining", "Shutdown"} : Main_command(type)

SpecMine == Init /\ [][NextMine]_vars

\* ---------------------------------------------------------------- the chunk history

\* the SWBF-inactive MMR built from a chunk history
RECURSIVE MmrOfChunks(_)
MmrOfChunks(history) ==
  IF history = <<>> THEN EmptyMmr
  ELSE Mmr_append(MmrOfChunks(SubSeq(history, 1, Len(history) - 1)),
                  Chunk_hash(history[Len(history)])).mmr

\* the chunk sequences a SWBF-inactive MMR commits to (one at most: the
\* digests are collision-free)
CommittedChunks(mmr) ==
  {X \in [1..mmr.count -> [1..CHUNK_SIZE -> {0, 1}]] : MmrOfChunks(X) = mmr}

RECURSIVE Flatten(_)
Flatten(X) == IF X = <<>> THEN <<>> ELSE Head(X) \o Flatten(Tail(X))

\* the bit tape of a set commitment: the committed chunks, then the window
BitTape(sc, X) == Flatten(X) \o sc.swbf_active

\* ---------------------------------------------------------------- properties
Verifies(t) == verify(ms, t.item, t.mp)
AS_Verifies(t) == AS_verify(ms, t.item, t.mp)

\* C1: after commit; prove; add the proof returned by prove verifies, whether
\* or not this add slid the window (tracked[last.who] holds that proof
\* untouched in the state the add produced).
C1_FreshProofVerifies ==
  (last.op = "add" /\ panic = "none") => Verifies(tracked[last.who])

\* an add that slid the window while bits were set, and the fresh proof verifies
C1_Witness ==
  /\ last.op = "add"
  /\ last.slid
  /\ panic = "none"
  /\ \E i \in 1..WINDOW_SIZE : ms.swbf_active[i] = 1
  /\ Verifies(tracked[last.who])

\* C2: in every state, the proof prove returns for any item does not verify
\* in that state (its AOCL leaf index equals the leaf count: not yet added).
C2_NoMembershipBeforeAdd ==
  \A item \in Items, sb \in BOOLEAN :
    LET mp == prove(ms, to_digest(item), to_digest(Rand), sb)
    IN /\ mp.auth_path_aocl.data_index >= ms.aocl.count
       /\ ~verify(ms, to_digest(item), mp)

\* the same item was added before with the same randomness, bits are set, and
\* the proof for adding it again still does not verify
C2_Witness ==
  /\ ms.aocl.count >= BATCH_SIZE
  /\ ms.aocl.count < MaxLeaves
  /\ \E i \in 1..Len(tracked) :
       /\ ~tracked[i].removed
       /\ Verifies(tracked[i])
       /\ ~verify(ms, tracked[i].item,
                  prove(ms, tracked[i].item, tracked[i].mp.randomness, FALSE))

\* C3: after rr = drop(item, proof); remove(rr) the same, non-updated proof
\* does not verify, at every leaf count.
C3_RemovalInvalidates ==
  (last.op = "remove" /\ panic = "none") => ~Verifies(stale[1])

\* a removal at a leaf count that is a multiple of BATCH_SIZE, of an item
\* with an archived chunk
C3_Witness ==
  /\ last.op = "remove"
  /\ panic = "none"
  /\ ms.aocl.count % BATCH_SIZE = 0
  /\ stale[1].mp.target_chunks # <<>>
  /\ ~Verifies(stale[1])

\* C4: a removed item's proof never verifies again, neither the proof that is
\* kept updated through every later addition and removal, nor the one that
\* was not updated for its own removal.
C4_RemovalIsPermanent ==
  /\ \A i \in 1..Len(tracked) : tracked[i].removed => ~Verifies(tracked[i])
  /\ \A i \in 1..Len(stale) : ~Verifies(stale[i])

\* a removed item whose proofs went through a later sliding addition
C4_Witness ==
  /\ last.op = "add"
  /\ last.slid
  /\ panic = "none"
  /\ stale # <<>>
  /\ \E i \in 1..Len(tracked) :
       /\ tracked[i].removed
       /\ tracked[i].mp.target_chunks # <<>>
       /\ ~Verifies(tracked[i])

\* C5: an addition keeps every updated proof valid: a proof of a live item
\* that verifies before update_from_addition; add verifies after it, whether or
\* not the addition slid the window.
C5_UpdateConsistencyUnderAddition ==
  [][(last'.op = "add" /\ panic' = "none") =>
       \A i \in 1..Len(tracked) :
         (~tracked[i].removed /\ AS_verify(ms, tracked[i].item, tracked[i].mp))
           => AS_verify(ms', tracked'[i].item, tracked'[i].mp)]_vars

\* a sliding addition after which an older live proof, which got a dictionary
\* entry, verifies
C5_Witness ==
  /\ last.op = "add"
  /\ last.slid
  /\ panic = "none"
  /\ \E i \in 1..(last.who - 1) :
       /\ ~tracked[i].removed
       /\ tracked[i].mp.target_chunks # <<>>
       /\ AS_Verifies(tracked[i])

C8_SingleAddLeavesBloomFilterUntouched ==
  (last.op = "add" /\ panic = "none" /\ Len(tracked) = 1) =>
    /\ ms.aocl.count = 1
    /\ ~last.slid
    /\ ms.swbf_inactive.count = 0
    /\ ms.swbf_active = ZeroBits(WINDOW_SIZE)

\* the output shape of the index derivation
IndicesShape(indices, leaf_index) ==
  /\ Len(indices) = NUM_TRIALS
  /\ \A j \in 1..(Len(indices) - 1) : indices[j] < indices[j + 1]
  /\ \A j \in 1..Len(indices) :
       /\ (leaf_index \div BATCH_SIZE) * CHUNK_SIZE <= indices[j]
       /\ indices[j] < (leaf_index \div BATCH_SIZE) * CHUNK_SIZE + WINDOW_SIZE

\* C9: get_swbf_indices returns NUM_TRIALS indices, strictly ascending (sorted
\* and pairwise distinct), inside the window of the leaf's batch, for every
\* item and leaf index; the indices of the removal record drop makes from any
\* held proof are strictly ascending.
C9_IndexDerivationShape ==
  /\ \A item \in Items, leaf_index \in 0..MaxLeaves :
       IndicesShape(get_swbf_indices(to_digest(item), to_digest(Rand), leaf_index),
                    leaf_index)
  /\ \A i \in 1..Len(tracked) :
       IndicesShape(drop(ms, tracked[i].item, tracked[i].mp).bit_indices, i - 1)
  /\ \A i \in 1..Len(stale) :
       LET bit_indices == drop(ms, stale[i].item, stale[i].mp).bit_indices
       IN \A j \in 1..(Len(bit_indices) - 1) : bit_indices[j] < bit_indices[j + 1]

\* an item whose first NUM_TRIALS samples collide has been proven, added and
\* dropped, with and without cached indices
C9_Witness ==
  /\ stale # <<>>
  /\ \E i \in 1..Len(tracked) :
       /\ tracked[i].removed
       /\ tracked[i].item = stale[1].item
       /\ Cardinality(Range(get_indices(tracked[i].item, tracked[i].mp.randomness,
                                        i - 1))) < NUM_TRIALS
       /\ IndicesShape(drop(ms, tracked[i].item, tracked[i].mp).bit_indices, i - 1)
  /\ \E i, j \in 1..Len(tracked) :
       tracked[i].mp.cached_bits # <<>> /\ tracked[j].mp.cached_bits = <<>>

\* C10: the assertion !has_duplicates() of update_from_addition never fails,
\* and every held proof has at most one dictionary entry per chunk index.
C10_NoDuplicates ==
  /\ panic # "update_from_addition: has_duplicates"
  /\ \A i \in 1..Len(tracked) : ~has_duplicates(tracked[i].mp.target_chunks)

\* a sliding addition gave an entry to a proof whose item has two samples in
\* the archived chunk
C10_Witness ==
  /\ last.op = "add"
  /\ last.slid
  /\ panic = "none"
  /\ \E i \in 1..Len(tracked) :
       \E k \in 1..Len(tracked[i].mp.target_chunks) :
         LET indices == get_indices(tracked[i].item, tracked[i].mp.randomness, i - 1)
         IN Cardinality({j \in 1..Len(indices) :
                           indices[j] \div CHUNK_SIZE = tracked[i].mp.target_chunks[k].idx})
              >= 2

\* C11: add_helper given a record whose AOCL snapshot differs from the current
\* AOCL aborts and leaves AOCL, SWBF-inactive MMR and active window as they
\* were; the second of two records committed against the same state is such
\* a record once the first has been added.
C11_AddRejectsStaleRecord ==
  [][last'.op = "add_second" =>
       /\ ~has_matching_aocl([aocl_snapshot |-> last.snapshot], ms.aocl)
       /\ panic' = "add: aocl snapshot"
       /\ ms' = ms]_vars

\* a second record was rejected in a state with archived chunks and set bits
C11_Witness ==
  /\ last.op = "add_second"
  /\ panic = "add: aocl snapshot"
  /\ ms.swbf_inactive.count > 0
  /\ \E i \in 1..WINDOW_SIZE : ms.swbf_active[i] = 1

\* C12: remove_helper given a record with an entry of target_chunks that does
\* not validate against the current SWBF-inactive peaks aborts, and no
\* SWBF-inactive leaf is mutated.
C12_RemoveRejectsUnsynchronizedRecord ==
  [][(/\ last'.op \in {"remove", "remove_unsynchronized"}
      /\ ~RemovalRecord_validate(records[last'.who].rr, ms))
       => (panic' # "none" /\ ms'.swbf_inactive = ms.swbf_inactive)]_vars

\* C13: a remove_helper that aborts leaves the active window, the
\* SWBF-inactive MMR and the AOCL exactly as they were before the call.
C13_RemoveIsAllOrNothing ==
  [][panic' = "remove_helper" => ms' = ms]_vars

\* C14: verify never fails: in every state, for every proof (a leaf index at
\* or beyond the leaf count and arbitrary cached indices included) it returns
\* a verdict without an out-of-window read.
C14_VerifyNeverFails == panic # "verify"

\* C15: verify(item, proof) returns true iff (1) the AOCL path verifies
\* H(item, randomness) at the proof's leaf index, (2) every chunk index below
\* the current batch index that holds a derived index has an entry in
\* target_chunks whose MMR proof verifies against the SWBF-inactive peaks, and
\* (3) some derived index is unset, in its dictionary chunk if archived, in
\* the active window otherwise. Stated for every proof on which verify
\* returns, the derived indices being those of get_swbf_indices.
C15_VerifyDecidesThreeConditions ==
  \A i \in 1..(Len(tracked) + 1), cached \in CachedBits :
    LET t == ProofToVerify(i, cached)
        mp == t.mp
        current_batch_index == verify_current_batch_index(ms)
        window_start == current_batch_index * CHUNK_SIZE
        derived == get_swbf_indices(t.item, mp.randomness, mp.auth_path_aocl.data_index)
        archived == {ci \in ChunkIndices(derived) : ci < current_batch_index}
        aocl_path_verifies ==
          /\ mp.auth_path_aocl.data_index < ms.aocl.count
          /\ Mmr_verify(mp.auth_path_aocl, ms.aocl.peaks,
                        hash_pair(t.item, mp.randomness), ms.aocl.count)
        archived_chunks_proven ==
          \A ci \in archived :
            /\ ci \in DictKeys(mp.target_chunks)
            /\ Mmr_verify(DictGet(mp.target_chunks, ci).mp, ms.swbf_inactive.peaks,
                          Chunk_hash(DictGet(mp.target_chunks, ci).chunk),
                          ms.swbf_inactive.count)
        some_index_unset ==
          \E b \in Range(derived) :
            IF b \div CHUNK_SIZE \in archived
            THEN /\ b \div CHUNK_SIZE \in DictKeys(mp.target_chunks)
                 /\ DictGet(mp.target_chunks, b \div CHUNK_SIZE).chunk[(b % CHUNK_SIZE) + 1] = 0
            ELSE ms.swbf_active[(b - window_start) + 1] = 0
    IN (/\ panic = "none"
        /\ \A b \in Range(cached) : b < window_start + WINDOW_SIZE)
         => (verify(ms, t.item, mp)
               <=> (aocl_path_verifies /\ archived_chunks_proven /\ some_index_unset))

\* C16: after a remove that returns, every bit position of the record is set,
\* in the active window when its chunk index is at or above the current batch
\* index, otherwise in the archived chunk whose digest is the SWBF-inactive
\* leaf at that chunk index; every other bit of the active window and of every
\* archived chunk keeps its value (chunks is the history of the archived
\* chunks, the SWBF-inactive MMR commits to it before the call).
C16_RemoveSetsExactlyTheRecordsIndices ==
  [][(/\ last'.op \in {"remove", "remove_unsynchronized"}
      /\ panic' = "none")
       => LET rr == records[last'.who].rr
              batch_index == (ms.aocl.count - 1) \div BATCH_SIZE
              window_start == batch_index * CHUNK_SIZE
              indices == Range(rr.bit_indices)
          IN /\ \A i \in 1..WINDOW_SIZE :
                  ms'.swbf_active[i] =
                    IF window_start + i - 1 \in indices THEN 1 ELSE ms.swbf_active[i]
             /\ Len(chunks') = Len(chunks)
             /\ \A c \in 1..Len(chunks) : \A j \in 1..CHUNK_SIZE :
                  chunks'[c][j] =
                    IF (c - 1) * CHUNK_SIZE + j - 1 \in indices THEN 1 ELSE chunks[c][j]
             /\ ms.swbf_inactive = MmrOfChunks(chunks)
             /\ ms'.swbf_inactive = MmrOfChunks(chunks')
             /\ \A b \in indices : b < window_start + WINDOW_SIZE]_vars

\* C17: the SWBF-inactive MMR, the active window and the returned chunk map
\* of one remove are the same for every order in which the chunk indices of
\* the record are processed: for every iteration order of the hash map of
\* remove_helper, and for every order of the dictionary that remove of
\* accumulation_scheme.rs walks through.
C17_RemoveIsOrderIndependent ==
  [][(/\ last'.op \in {"remove", "remove_unsynchronized"}
      /\ panic' = "none")
       => LET rr == records[last'.who].rr
              batch_index == (ms.aocl.count - 1) \div BATCH_SIZE
              chunk_map(d) == {<<d[i].idx, d[i].chunk>> : i \in 1..Len(d)}
          IN \A order \in Orders(Len(rr.target_chunks)) :
               /\ RemoveInOrder(ms, rr, batch_index, order) = ms'
               /\ chunk_map(NewTargetChunks(PermuteChunks(rr, order), batch_index))
                    = chunk_map(NewTargetChunks(rr, batch_index))
               /\ ~AS_remove_panics(ms, rr)
                    => /\ ~AS_remove_panics(ms, PermuteChunks(rr, order))
                       /\ AS_remove(ms, PermuteChunks(rr, order)) = AS_remove(ms, rr)]_vars

\* a record with two archived chunks was applied: two SWBF-inactive leaves
\* under one peak were mutated by one remove
C17_Witness ==
  /\ last.op = "remove"
  /\ panic = "none"
  /\ ms.swbf_inactive.count = 2
  /\ LET rr == records[last.who].rr
     IN /\ Len(rr.target_chunks) = 2
        /\ \A i \in 1..2 : BitsOfChunk(rr.bit_indices, rr.target_chunks[i].idx) # {}
        /\ ms.swbf_inactive = MmrOfChunks(chunks)

\* C18: every pending removal record that went through
\* batch_update_from_addition before each add and through
\* batch_update_from_remove before each remove of one of the records validates
\* against the current SWBF-inactive MMR, the applied records included, also
\* after steps that slide the window.
C18_PendingRecordsStaySynchronized ==
  Usable =>
    \A k \in 1..Len(records) :
      records[k].synced => RemovalRecord_validate(records[k].rr, ms)

\* two records share an archived chunk; one was applied after a later slide
\* and the other, still pending, holds the chunk with the applied bits and a
\* lengthened authentication path
C18_Witness ==
  /\ Usable
  /\ last.op = "remove"
  /\ Len(records) = 2
  /\ \E k \in 1..2 :
       /\ records[k].synced
       /\ ~records[k].applied
       /\ records[3 - k].applied
       /\ \E i \in 1..Len(records[k].rr.target_chunks) :
            LET e == records[k].rr.target_chunks[i]
            IN /\ e.mp.authentication_path # <<>>
               /\ \E j \in 1..CHUNK_SIZE :
                    /\ e.chunk[j] = 1
                    /\ e.idx * CHUNK_SIZE + j - 1 \in Range(records[3 - k].rr.bit_indices)

\* C19: for every removal record created by drop and updated through every
\* later addition, the key set of target_chunks is the set of chunk indices
\* of its indices that are below the current batch index: no archived chunk
\* is missing, no chunk of the active window is present.
C19_TargetChunksAreTheArchivedChunks ==
  Usable =>
    \A k \in 1..Len(records) :
      records[k].synced =>
        LET rr == records[k].rr
            batch_index == (ms.aocl.count - 1) \div BATCH_SIZE
        IN DictKeys(rr.target_chunks) =
             {ci \in ChunkIndices(rr.bit_indices) : ci < batch_index}

\* an update-then-add step slid the window and archived a chunk of a pending
\* record that has another index still in the active window
C19_Witness ==
  /\ Usable
  /\ last.op = "add"
  /\ last.slid
  /\ \E k \in 1..Len(records) :
       LET rr == records[k].rr
           batch_index == (ms.aocl.count - 1) \div BATCH_SIZE
       IN /\ records[k].synced
          /\ ~records[k].applied
          /\ batch_index - 1 \in DictKeys(rr.target_chunks)
          /\ \E b \in Range(rr.bit_indices) : b \div CHUNK_SIZE >= batch_index

\* C20: in every reachable state prove returns a proof whose AOCL leaf index
\* is the current AOCL leaf count and whose target_chunks is empty, with or
\* without cached indices, also when the pending addition will slide the
\* window; prove of accumulation_scheme.rs never inserts a dictionary entry
\* in its slide branch.
C20_ProveReturnsBareProof ==
  \A item \in Items :
    /\ \A cache \in BOOLEAN :
         LET mp == prove(ms, to_digest(item), to_digest(Rand), cache)
         IN /\ mp.auth_path_aocl.data_index = ms.aocl.count
            /\ mp.target_chunks = <<>>
    /\ LET mp == AS_prove(ms, to_digest(item), to_digest(Rand))
       IN /\ mp.auth_path_aocl.data_index = ms.aocl.count
          /\ mp.target_chunks = <<>>

\* an addition after the first slid the window while bits were set; the
\* proof prove issued for it right before is held as issued
C20_Witness ==
  /\ last.op = "add"
  /\ last.slid
  /\ panic = "none"
  /\ last.who > 1
  /\ tracked[last.who].mp.target_chunks = <<>>
  /\ tracked[last.who].mp.auth_path_aocl.data_index = ms.aocl.count - 1
  /\ \E i \in 1..WINDOW_SIZE : ms.swbf_active[i] = 1

\* C21: for a proof produced by prove with caching enabled and kept up to
\* date, drop returns the indices derived from (item, randomness, AOCL leaf
\* index) and the proof's target_chunks, and verify and drop give the same
\* results as for the proof produced without caching: that proof, taken
\* through the same update, is the cached one without its cache.
C21_CachedIndicesAreTransparent ==
  [][(tracked' # tracked /\ panic' = "none" /\ last'.op \in {"add", "remove"}) =>
       \A i \in 1..Len(tracked') :
         LET t == tracked'[i]
             plain == Uncached(t.mp)
             added == tracked'[Len(tracked')]
             ar == commit(ms, added.item, added.mp.randomness)
         IN t.mp.cached_bits # <<>> =>
              /\ drop(ms', t.item, t.mp).bit_indices =
                   get_swbf_indices(t.item, t.mp.randomness, t.mp.auth_path_aocl.data_index)
              /\ drop(ms', t.item, t.mp).target_chunks = t.mp.target_chunks
              /\ drop(ms', t.item, plain) = drop(ms', t.item, t.mp)
              /\ verify(ms', t.item, plain) = verify(ms', t.item, t.mp)
              /\ (last'.op = "add" /\ i = Len(tracked'))
                   => plain = prove(ms, t.item, t.mp.randomness, FALSE)
              /\ (last'.op = "add" /\ i < Len(tracked'))
                   => plain = SC_update_from_addition(Uncached(tracked[i].mp),
                                                      t.item, ms, ar).mp
              /\ (last'.op = "remove" /\ ~tracked[i].removed)
                   => plain = update_from_remove(
                                Uncached(tracked[i].mp), ms,
                                drop(ms, tracked[last'.who].item,
                                     tracked[last'.who].mp))]_vars

\* a proof with cached indices holds a dictionary entry from a slide, went
\* through a removal and verifies
C21_Witness ==
  /\ panic = "none"
  /\ last.op = "remove"
  /\ \E i \in 1..Len(tracked) :
       /\ tracked[i].mp.cached_bits # <<>>
       /\ tracked[i].mp.target_chunks # <<>>
       /\ ~tracked[i].removed
       /\ Verifies(tracked[i])

\* C22: updating the held proofs with the batch API (batch_update_from_addition
\* before an addition, batch_update_from_remove before a removal) yields the
\* proofs that updating each proof with update_from_addition or
\* update_from_remove yields, at every step of every sequence of additions and
\* removals.
C22_BatchEquivalence ==
  [][(tracked' # tracked /\ panic' = "none" /\ last'.op \in {"add", "remove"}) =>
       LET n == Len(tracked)
           mps == [i \in 1..n |-> tracked[i].mp]
           items == [i \in 1..n |-> tracked[i].item]
           added == tracked'[Len(tracked')]
           ar == commit(ms, added.item, added.mp.randomness)
           rr == drop(ms, tracked[last'.who].item, tracked[last'.who].mp)
           batch == IF last'.op = "add"
                    THEN MP_batch_update_from_addition(mps, items, ms, ar)
                    ELSE MP_batch_update_from_remove(mps, rr)
       IN \A i \in 1..n :
            ~tracked[i].removed => Canonical(batch[i]) = Canonical(tracked'[i].mp)]_vars

\* a step updated a proof that holds two dictionary entries, one of them
\* new or changed by the step
C22_Witness ==
  /\ panic = "none"
  /\ last.op \in {"add", "remove"}
  /\ \E i \in 1..Len(tracked) :
       /\ ~tracked[i].removed
       /\ i # last.who
       /\ Len(tracked[i].mp.target_chunks) = 2
       /\ \/ last.op = "add" /\ last.slid
          \/ /\ last.op = "remove"
             /\ \E k \in 1..2, j \in 1..CHUNK_SIZE :
                  tracked[i].mp.target_chunks[k].chunk[j] = 1

\* C24: whenever a pending removal record is applied and a record updated
\* with batch_update_from_remove has an index in an archived chunk the applied
\* record mutates, without holding an entry for that chunk, the call returns
\* the error MissingChunkOnUpdateFromRemove.
C24_MissingChunkIsReported ==
  \A k \in 1..Len(records) : \A j \in 1..Len(records) :
    (/\ Usable
     /\ ~records[k].applied
     /\ MissesChunk(records[j].rr, records[k].rr))
      => batch_update_from_remove_result(
           [n \in 1..Len(records) |-> records[n].rr], records[k].rr)
           = "MissingChunkOnUpdateFromRemove"

\* C25: the indices of an (item, randomness, leaf index) triple are the same
\* on every call: in every state and for every order in which the parallel
\* counter evaluations complete, get_swbf_indices gives, for every held proof
\* and for the next leaf, the array the set-commitment code works with, and
\* the array cached by prove in an earlier accumulator state.
C25_IndexDerivationIsPure ==
  /\ \A i \in 1..Len(tracked) : \A order \in Orders(NUM_TRIALS) :
       LET mp == tracked[i].mp
           indices == get_swbf_indices_par(tracked[i].item, mp.randomness,
                                           mp.auth_path_aocl.data_index, order)
       IN /\ indices = get_swbf_indices(tracked[i].item, mp.randomness,
                                        mp.auth_path_aocl.data_index)
          /\ mp.cached_bits # <<>> => indices = mp.cached_bits
          /\ ~tracked[i].removed => indices = drop(ms, tracked[i].item, mp).bit_indices
  /\ \A item \in Items, order \in Orders(NUM_TRIALS) :
       get_swbf_indices_par(to_digest(item), to_digest(Rand), ms.aocl.count, order)
         = get_swbf_indices(to_digest(item), to_digest(Rand), ms.aocl.count)

\* a proof with cached indices, held through a slide and a removal, whose two
\* samples differ (the vector depends on the completion order until it is
\* sorted), and a proof with a repeated sample
C25_Witness ==
  /\ last.op = "remove"
  /\ ms.swbf_inactive.count > 0
  /\ \E i \in 1..Len(tracked) :
       LET mp == tracked[i].mp
       IN /\ mp.cached_bits # <<>>
          /\ SampleIndex(tracked[i].item, mp.randomness, mp.auth_path_aocl.data_index, 0)
               # SampleIndex(tracked[i].item, mp.randomness, mp.auth_path_aocl.data_index, 1)
  /\ \E i \in 1..Len(tracked) :
       LET mp == tracked[i].mp
       IN SampleIndex(tracked[i].item, mp.randomness, mp.auth_path_aocl.data_index, 0)
            = SampleIndex(tracked[i].item, mp.randomness, mp.auth_path_aocl.data_index, 1)

\* C26: after any sequence of set_bit, unset_bit, or, and, xor_assign from
\* the empty chunk the stored list of positions is strictly ascending, hence
\* without duplicates, and two chunks with the same set bits are equal and
\* have the same hash preimage.
C26_ChunkIsCanonicalSet ==
  /\ \A i \in 1..(Len(chunk_a.bits) - 1) : chunk_a.bits[i] < chunk_a.bits[i + 1]
  /\ (\A i \in ChunkPositions : get_bit(chunk_a, i) = get_bit(chunk_b, i))
       => /\ chunk_a = chunk_b
          /\ to_sequence(chunk_a) = to_sequence(chunk_b)

\* C27: while only set_bit and unset_bit were called on a chunk that started
\* empty, get_bit(i) is true exactly when the most recent call on i was
\* set_bit, and a call on index i leaves get_bit(j) as it was for j # i.
C27_GetBitFollowsTheMostRecentCall ==
  [][chunk_calls'.only_set_unset =>
       /\ \A i \in ChunkPositions :
            get_bit(chunk_a', i) = (chunk_calls'.recent[i] = "set_bit")
       /\ chunk_calls' # chunk_calls =>
            \A j \in ChunkPositions \ {chunk_calls'.index} :
              get_bit(chunk_a', j) = get_bit(chunk_a, j)]_vars

\* an index set twice and then unset, next to an index that is set: the last
\* call was the unset_bit of an index the list held more than once
C27_Witness ==
  /\ chunk_calls.only_set_unset
  /\ chunk_calls.op = "unset_bit"
  /\ Len(chunk_a.bits) = MaxBits - 2
  /\ \E j \in ChunkPositions :
       /\ j # chunk_calls.index
       /\ chunk_calls.recent[j] = "set_bit"
       /\ Cardinality({k \in 1..Len(chunk_a.bits) : chunk_a.bits[k] = j}) >= 2

\* C28: is_unset is true exactly when no bit of the chunk is set, bit 0
\* included.
C28_IsUnsetIffNoBitIsSet ==
  is_unset(chunk_a) <=> \A i \in ChunkPositions : ~get_bit(chunk_a, i)

\* C30: in accumulation_scheme.rs every dictionary entry of a held proof,
\* inserted by update_from_addition when add archived the chunk, has a chunk
\* index equal to the leaf index of its MMR membership proof: the archived
\* chunk sits at the SWBF-inactive leaf of its own index.
C30_LeafIndexEqualsChunkIndex ==
  \A i \in 1..Len(tracked) : \A e \in 1..Len(tracked[i].mp.target_chunks) :
    tracked[i].mp.target_chunks[e].idx = tracked[i].mp.target_chunks[e].mp.data_index

\* C31: after batch_update_from_addition for an addition that slides the
\* window, any two updated removal records with an index in the chunk just
\* archived hold the same target_chunks entry for that chunk (same MMR
\* authentication path, same chunk), whether or not they hold entries for
\* older chunks.
C31_OneSlideEntrySharedByAll ==
  [][(last'.op = "add" /\ last'.slid /\ panic' = "none") =>
       LET new_chunk_index == ms.swbf_inactive.count
       IN \A k \in 1..Len(records') : \A j \in 1..Len(records') :
            (/\ records'[k].synced
             /\ records'[j].synced
             /\ new_chunk_index \in ChunkIndices(records'[k].rr.bit_indices)
             /\ new_chunk_index \in ChunkIndices(records'[j].rr.bit_indices))
              => /\ new_chunk_index \in DictKeys(records'[k].rr.target_chunks)
                 /\ new_chunk_index \in DictKeys(records'[j].rr.target_chunks)
                 /\ DictGet(records'[k].rr.target_chunks, new_chunk_index)
                      = DictGet(records'[j].rr.target_chunks, new_chunk_index)
                 /\ DictGet(records'[k].rr.target_chunks, new_chunk_index).chunk
                      = SubSeq(ms.swbf_active, 1, CHUNK_SIZE)]_vars

\* a sliding addition updated two pending records that both have an index in
\* the chunk just archived; one of them holds an entry for an older chunk, the
\* other holds no other entry
C31_Witness ==
  /\ last.op = "add"
  /\ last.slid
  /\ panic = "none"
  /\ \E k \in 1..Len(records) : \E j \in 1..Len(records) :
       LET new_chunk_index == ms.swbf_inactive.count - 1
       IN /\ records[k].synced /\ records[j].synced
          /\ new_chunk_index \in DictKeys(records[k].rr.target_chunks)
          /\ new_chunk_index \in DictKeys(records[j].rr.target_chunks)
          /\ \E c \in DictKeys(records[k].rr.target_chunks) : c < new_chunk_index
          /\ DictKeys(records[j].rr.target_chunks) = {new_chunk_index}

\* C32: along every sequence of add and remove calls, a remove with a record
\* that missed an earlier removal of the same archived chunk included, no
\* absolute bit position that is set becomes unset, neither in the active
\* window nor in the chunks the SWBF-inactive leaves commit to.
C32_BloomFilterBitsAreMonotone ==
  [][\A X \in CommittedChunks(ms.swbf_inactive) :
       \A Y \in CommittedChunks(ms'.swbf_inactive) :
         \A p \in 1..Len(BitTape(ms, X)) :
           BitTape(ms, X)[p] = 1 => BitTape(ms', Y)[p] = 1]_vars

\* C33: an add never changes the value of an absolute bit position.  When it
\* slides, the SWBF-inactive MMR commits to the chunks it committed to and then
\* to the first CHUNK_SIZE bits of the old window, every other window bit
\* moves down by CHUNK_SIZE in the array and the last CHUNK_SIZE window bits
\* are zero; when it does not slide, the active window and the SWBF-inactive
\* MMR are unchanged (chunks is the sequence of chunks committed to before the
\* add).
C33_AddPreservesTheBitTape ==
  [][(last'.op = "add" /\ panic' = "none") =>
       LET chunk == SubSeq(ms.swbf_active, 1, CHUNK_SIZE)
       IN /\ ms.swbf_inactive = MmrOfChunks(chunks)
          /\ IF last'.slid
             THEN /\ ms'.swbf_inactive = MmrOfChunks(Append(chunks, chunk))
                  /\ \A i \in 1..(WINDOW_SIZE - CHUNK_SIZE) :
                       ms'.swbf_active[i] = ms.swbf_active[i + CHUNK_SIZE]
                  /\ \A i \in (WINDOW_SIZE - CHUNK_SIZE + 1)..WINDOW_SIZE :
                       ms'.swbf_active[i] = 0
                  /\ BitTape(ms', Append(chunks, chunk))
                       = BitTape(ms, chunks) \o ZeroBits(CHUNK_SIZE)
             ELSE /\ ms'.swbf_active = ms.swbf_active
                  /\ ms'.swbf_inactive = ms.swbf_inactive]_vars

\* a sliding add archived a chunk with a set bit and moved a set bit of the
\* window down
C33_Witness ==
  /\ last.op = "add"
  /\ last.slid
  /\ panic = "none"
  /\ \E i \in 1..(WINDOW_SIZE - CHUNK_SIZE) : ms.swbf_active[i] = 1
  /\ ms.swbf_inactive = MmrOfChunks(chunks)
  /\ \E j \in 1..CHUNK_SIZE : chunks[Len(chunks)][j] = 1

\* C34: in every reachable state with at least one AOCL leaf the current
\* batch index of verify and of remove_helper, (leaf count - 1) / BATCH_SIZE,
\* is the number of SWBF-inactive leaves, so that a chunk index counts as
\* archived exactly when a leaf exists for it; the empty set has no
\* SWBF-inactive leaf.
C34_ArchivedBoundaryAgreesWithTheMmr ==
  /\ ms.aocl.count = 0 => ms.swbf_inactive.count = 0
  /\ ms.aocl.count >= 1 =>
       /\ verify_current_batch_index(ms) = ms.swbf_inactive.count
       /\ \A chunk_index \in 0..MaxLeaves :
            chunk_index < verify_current_batch_index(ms)
              <=> chunk_index < ms.swbf_inactive.count
       /\ \A i \in 1..Len(tracked) :
            (/\ ~tracked[i].removed
             /\ ~remove_helper_panics(ms, drop(ms, tracked[i].item, tracked[i].mp)))
              => remove_helper(ms, drop(ms, tracked[i].item, tracked[i].mp))
                   = RemoveWith(ms, drop(ms, tracked[i].item, tracked[i].mp),
                                ms.swbf_inactive.count)

\* the leaf count is a multiple of BATCH_SIZE, a chunk is archived and a held
\* item has an index in it
C34_Witness ==
  /\ panic = "none"
  /\ ms.aocl.count % BATCH_SIZE = 0
  /\ ms.swbf_inactive.count >= 1
  /\ \E i \in 1..Len(tracked) :
       /\ ~tracked[i].removed
       /\ tracked[i].mp.target_chunks # <<>>

\* C35: in every reachable state of accumulation_scheme.rs with at least one
\* AOCL leaf, remove and verify compute the same window start, so that remove
\* writes a bit index of a held item to the active window exactly when verify
\* reads it from the active window, also when the leaf count is a multiple of
\* BATCH_SIZE.
C35_RemoveAndVerifyAgreeOnWindowStart ==
  ms.aocl.count >= 1 =>
    /\ AS_remove_window_start(ms) = AS_verify_window_start(ms)
    /\ \A i \in 1..Len(tracked) :
         \A b \in Range(get_indices(tracked[i].item, tracked[i].mp.randomness,
                                    tracked[i].mp.auth_path_aocl.data_index)) :
           b >= AS_remove_window_start(ms) <=> b >= AS_verify_window_start(ms)

\* C36: a remove changes neither the AOCL (leaf count and peaks) nor the
\* number of SWBF-inactive leaves, whether or not its record was kept up to
\* date, so that in every reachable state the AOCL leaf count is the number
\* of successful add calls (tracked holds one entry per successful add).
C36_RemoveLeavesTheCommitmentListAlone ==
  [][/\ last'.op \in {"remove", "remove_unsynchronized"} =>
          /\ ms'.aocl = ms.aocl
          /\ ms'.swbf_inactive.count = ms.swbf_inactive.count
          /\ Len(tracked') = Len(tracked)
     /\ ms'.aocl.count = Len(tracked')]_vars

\* a remove that returned after replacing an archived leaf and setting a bit
\* of the active window
C36_Witness ==
  /\ last.op = "remove"
  /\ panic = "none"
  /\ records[last.who].rr.target_chunks # <<>>
  /\ ms.swbf_inactive # MmrOfChunks([c \in 1..ms.swbf_inactive.count |-> ZeroBits(CHUNK_SIZE)])
  /\ \E i \in 1..WINDOW_SIZE : ms.swbf_active[i] = 1
  /\ ms.aocl.count = Len(tracked)

\* C37: applying a removal record a second time, after it was brought up to
\* date with its own first application by batch_update_from_remove, does not
\* abort and leaves the active window, every SWBF-inactive leaf digest (the
\* peaks and the chunks committed to) and the updated records unchanged; every
\* other updated record still validates.
C37_RemoveIsIdempotent ==
  [][last'.op = "remove_again" =>
       /\ panic' = "none"
       /\ ms'.swbf_active = ms.swbf_active
       /\ ms'.swbf_inactive = ms.swbf_inactive
       /\ ms' = ms
       /\ chunks' = chunks
       /\ \A j \in 1..Len(records') :
            records'[j].synced =>
              /\ records'[j] = records[j]
              /\ RemovalRecord_validate(records'[j].rr, ms')]_vars

\* a record with two archived chunks was applied again while another updated
\* record that shares one of the chunks is pending
C37_Witness ==
  /\ last.op = "remove_again"
  /\ panic = "none"
  /\ Len(records[last.who].rr.target_chunks) = 2
  /\ \E j \in 1..Len(records) :
       /\ j # last.who
       /\ records[j].synced
       /\ ~records[j].applied
       /\ DictKeys(records[j].rr.target_chunks)
            \cap DictKeys(records[last.who].rr.target_chunks) # {}

\* C38: index derivation terminates: every call of get_swbf_indices, whatever
\* the item, the randomness, the leaf index and the order in which the parallel
\* samples arrive, eventually returns, and what it returns is NUM_TRIALS
\* distinct indices in ascending order; the duplicate-replacement loop does not
\* run on forever.
C38_IndexDerivationTerminates ==
  (derivation.pc = "collected")
    ~> (/\ derivation.pc = "returned"
        /\ Len(derivation.indices) = NUM_TRIALS
        /\ \A a, b \in 1..NUM_TRIALS :
             a < b => derivation.indices[a] < derivation.indices[b])

\* a call returned after the loop replaced a duplicate among the first
\* NUM_TRIALS samples
C38_Witness ==
  /\ derivation.pc = "returned"
  /\ derivation.j > NUM_TRIALS
  /\ Len(derivation.indices) = NUM_TRIALS
  /\ SampleIndex(derivation.item, derivation.randomness, derivation.aocl_leaf_index, 0)
       = SampleIndex(derivation.item, derivation.randomness, derivation.aocl_leaf_index, 1)

\* C39: resync treats monitored UTXOs independently: a call of
\* resync_membership_proofs_to_tip sets the sync label to tip_hash, and when it
\* ends every monitored UTXO that was confirmed, was not yet synced to tip_hash
\* and was not confirmed in a block the walk reverts, wherever it stands in
\* the list, has a membership proof stored for tip_hash; only the UTXOs
\* confirmed in a reverted block are left without one.
C39_ResyncTreatsUtxosIndependently ==
  [][resync'.calls # resync.calls =>
       /\ sync_label' = resync'.tip_hash
       /\ \A i \in 1..Len(monitored_utxos) :
            /\ (/\ monitored_utxos[i].confirmed_in_block # NoBlock
                /\ ~is_synced_to(monitored_utxos[i], resync'.tip_hash)
                /\ ~ConfirmedInRevertedBlock(monitored_utxos[i], resync'.tip_hash))
                 => is_synced_to(monitored_utxos'[i], resync'.tip_hash)
            /\ ConfirmedInRevertedBlock(monitored_utxos[i], resync'.tip_hash)
                 => ~is_synced_to(monitored_utxos'[i], resync'.tip_hash)]_vars

\* C40: the miner follows main's tip: while the miner waits for main after it
\* reported NewBlockFound it builds no template; a template built when main
\* has handled every report and the miner has seen main's last message is
\* built on main's tip; and when main sent NewBlock(b) while the miner's own
\* block was in flight, the next template the miner builds is built on b.
C40_MinerFollowsMainsTip ==
  [][/\ miner.pc \in {"wait_changed", "wait_borrow"} => miner'.worker = NoBlock
     /\ (miner.pc = "top" /\ miner'.pc = "select" /\ miner'.worker # NoBlock) =>
          /\ (to_main = <<>> /\ ~from_main.unseen) => miner'.worker = main.tip
          /\ (owed # NoBlock /\ ~from_main.unseen) => miner'.worker = owed]_vars

====
